---- MODULE Spec2Model ----
(***************************************************************************)
(* The payments ledger: the intake use case (payments-api) and the outbox  *)
(* worker (ledger-worker) over one relational database.  A database        *)
(* transaction whose reads are all row-locking reads is one atomic step;   *)
(* the intake transaction is split at its non-locking idempotency read.    *)
(* LockSpec takes the transactions apart, one locking statement a step.    *)
(***************************************************************************)
EXTENDS Integers, Sequences, FiniteSets, TLC

\* ------------------------------------------------------------------ bounds
MaxTime == 35         \* the clock stops advancing here
BatchSize == 2        \* batch_size passed to process_available_events
MaxFaults == 1        \* injected faults and storage errors in one behaviour
MaxRetryFaults == 8   \* the same, where retries run to the dead-letter limit
MaxRetryTime == 160   \* the clock stops here where retries run to the limit
MaxFairTime == 150    \* the clock stops here in the fault-free deployment
FairBatchSize == 1    \* batch_size in the fault-free deployment
MaxLockTime == 30     \* the clock stops here where row locks are taken one by one
MaxReconcileTime == 5    \* the clock stops here where the reconciliation pass runs
MaxQueries == 3          \* distinct questions put to the failure injectors
MaxStallTime == 65       \* the clock stops here where workers stall and restart

\* ------------------------------------------------------- program constants
SeedBalance == 1000000
LeaseTtl == 30
ReconciliationInterval == 5
MaxAttempts == 7
MaxBackoffExp == 6

NULL == "null"
NullTime == -1        \* next_retry_at IS NULL

STRONG == "strong"
HYBRID == "hybrid"
EVENTUAL == "eventual"
ConsistencyMode == {STRONG, HYBRID, EVENTUAL}

RECEIVED == "received"
RESERVED == "reserved"
COMPLETED == "completed"
REJECTED == "rejected"
PaymentStatus == {RECEIVED, RESERVED, COMPLETED, REJECTED}

PENDING == "pending"
PROCESSING == "processing"
PROCESSED == "processed"
DEAD == "dead"
OutboxStatus == {PENDING, PROCESSING, PROCESSED, DEAD}

PAYMENT_RESERVED == "PAYMENT_RESERVED"
PAYMENT_REQUESTED == "PAYMENT_REQUESTED"

DEBIT == "DEBIT"
CREDIT == "CREDIT"

SEED_ACCOUNTS == {"acc-001", "acc-002", "acc-003", "acc-004"}

\* ------------------------------------------------------------ input sets
Keys == {"idem-key-1", "idem-key-2"}
RequestAccounts == {"acc-001", "acc-002"}
Amounts == {400000, 700000}
Workers == {"w1", "w2"}
Requests == {1, 2}

CreatePaymentRequest ==
    [idempotency_key : Keys,
     source_account_id : RequestAccounts,
     destination_account_id : RequestAccounts,
     amount_cents : Amounts]

VARIABLES
    accounts,          \* accounts table: id -> row
    payments,          \* payments table, in insertion order; the id is the position
    idempotency_keys,  \* idempotency_keys table: a set of rows
    outbox_events,     \* outbox_events table, in insertion order; the id is the position
    ledger_entries,    \* ledger_entries table, append-only
    now,               \* utc_now(), in seconds
    intake,            \* one CreatePaymentUseCase.execute call per request slot
    worker             \* one WorkerProcessor loop per worker

vars == <<accounts, payments, idempotency_keys, outbox_events, ledger_entries,
          now, intake, worker>>

db == <<accounts, payments, idempotency_keys, outbox_events, ledger_entries>>

\* ----------------------------------------------------------- pure helpers
Min(a, b) == IF a <= b THEN a ELSE b

RECURSIVE Pow2(_)
Pow2(n) == IF n = 0 THEN 1 ELSE 2 * Pow2(n - 1)

\* canonical JSON of the validated request, hashed; distinct bodies give
\* distinct hashes
compute_request_hash(request) ==
    <<request.amount_cents, request.destination_account_id,
      request.idempotency_key, "pix", request.source_account_id>>

\* PaymentResponse.model_dump_json / model_validate_json
\* a serializer that stores an empty response
model_dump_json_empty(response) == <<>>

model_dump_json(response) ==
    <<<<"payment_id", response.payment_id>>, <<"status", response.status>>>>

model_validate_json(json) ==
    [payment_id |-> json[1][2], status |-> json[2][2]]

\* ------------------------------------------------------------ initial state
\* None, for a request, its hash and a response
NoRequest ==
    [idempotency_key |-> NULL, source_account_id |-> NULL,
     destination_account_id |-> NULL, amount_cents |-> 0]

NoHash == <<0, NULL, NULL, NULL, NULL>>

NoResponse == [payment_id |-> 0, status |-> NULL]

NewIntake ==
    [pc |-> "new", request |-> NoRequest, mode |-> NULL, request_hash |-> NoHash,
     http_status |-> 0, error_code |-> NULL, response |-> NoResponse, created |-> FALSE,
     integrity_error |-> FALSE]

\* no reconciliation pass has returned yet
NoResult == [imbalance |-> 0, negative_count |-> NullTime]

\* the seeded accounts, empty tables, calls not yet made and both workers
\* configured with the same mode, their loops just started
InitWith(requests) ==
    /\ accounts = [a \in SEED_ACCOUNTS |->
                     [available_balance_cents |-> SeedBalance,
                      reserved_balance_cents |-> 0,
                      version |-> 0]]
    /\ payments = <<>>
    /\ idempotency_keys = {}
    /\ outbox_events = <<>>
    /\ ledger_entries = <<>>
    /\ now = 0
    /\ intake = [r \in requests |-> NewIntake]
    /\ \E mode \in ConsistencyMode :
          worker = [w \in Workers |->
                      [mode |-> mode, pc |-> "idle", event_ids |-> <<>>,
                       lease_expiration |-> NullTime,
                       last_reconciliation |-> 0, reconciliation |-> NoResult]]

Init == InitWith(Requests)

\* ------------------------------------------------- intake: payments-api
validate_request(request) ==
    request.source_account_id # request.destination_account_id

\* IdempotencyRepository.get
idempotency_get(key) ==
    {row \in idempotency_keys : row.key = key}

\* a replay that answers with the payment's current status instead of the
\* stored response
get_or_validate_idempotency_live(key, request_hash) ==
    LET existing == idempotency_get(key) IN
    IF existing = {} THEN [kind |-> "none"]
    ELSE LET row == CHOOSE x \in existing : TRUE
             stored == model_validate_json(row.response_payload_json)
         IN
         IF row.request_hash # request_hash
         THEN [kind |-> "error", http_status |-> 409, error_code |-> "IDEMPOTENCY_CONFLICT"]
         ELSE [kind |-> "replay",
               response |-> [payment_id |-> stored.payment_id,
                             status |-> payments[stored.payment_id].status]]

\* a lookup that replays whatever is stored under the key, whatever the body
get_or_validate_idempotency_any_hash(key, request_hash) ==
    LET existing == idempotency_get(key) IN
    IF existing = {} THEN [kind |-> "none"]
    ELSE LET row == CHOOSE x \in existing : TRUE IN
         IF row.response_payload_json = <<>>
         THEN [kind |-> "error", http_status |-> 503, error_code |-> "IDEMPOTENCY_UNAVAILABLE"]
         ELSE [kind |-> "replay", response |-> model_validate_json(row.response_payload_json)]

get_or_validate_idempotency(key, request_hash) ==
    LET existing == idempotency_get(key) IN
    IF existing = {} THEN [kind |-> "none"]
    ELSE LET row == CHOOSE x \in existing : TRUE IN
         IF row.request_hash # request_hash
         THEN [kind |-> "error", http_status |-> 409, error_code |-> "IDEMPOTENCY_CONFLICT"]
         ELSE IF row.response_payload_json = <<>>
         THEN [kind |-> "error", http_status |-> 503, error_code |-> "IDEMPOTENCY_UNAVAILABLE"]
         ELSE [kind |-> "replay", response |-> model_validate_json(row.response_payload_json)]

\* a funds check that only asks for a positive balance
validate_funds_positive(source, amount_cents) ==
    source.available_balance_cents > 0

\* a funds check that refuses a debit of exactly the available balance
validate_funds_strict(source, amount_cents) ==
    source.available_balance_cents > amount_cents

validate_funds(source, amount_cents) ==
    source.available_balance_cents >= amount_cents

create_payment(request, request_hash, status) ==
    [id |-> Len(payments) + 1,
     idempotency_key |-> request.idempotency_key,
     request_hash |-> request_hash,
     source_account_id |-> request.source_account_id,
     destination_account_id |-> request.destination_account_id,
     amount_cents |-> request.amount_cents,
     method |-> "pix",
     status |-> status]

\* a ledger append that forgets the CREDIT entry
add_ledger_entries_debit_only(ledger, payment_id, source_id, destination_id, amount_cents) ==
    ledger \o
    <<[payment_id |-> payment_id, account_id |-> source_id,
       direction |-> DEBIT, amount_cents |-> amount_cents]>>

add_ledger_entries(ledger, payment_id, source_id, destination_id, amount_cents) ==
    ledger \o
    <<[payment_id |-> payment_id, account_id |-> source_id,
       direction |-> DEBIT, amount_cents |-> amount_cents],
      [payment_id |-> payment_id, account_id |-> destination_id,
       direction |-> CREDIT, amount_cents |-> amount_cents]>>

add_outbox(payment_id, event_type, request) ==
    [id |-> Len(outbox_events) + 1,
     aggregate_type |-> "payment",
     aggregate_id |-> payment_id,
     event_type |-> event_type,
     payload_json |-> [payment_id |-> payment_id,
                       source_account_id |-> request.source_account_id,
                       destination_account_id |-> request.destination_account_id,
                       amount_cents |-> request.amount_cents,
                       traceparent |-> NULL],
     status |-> PENDING,
     attempts |-> 0,
     next_retry_at |-> NullTime,
     created_at |-> now]

DomainError(http_status, error_code) ==
    [ok |-> FALSE, http_status |-> http_status, error_code |-> error_code]

accounts_exist(source_id, destination_id) ==
    source_id \in DOMAIN accounts /\ destination_id \in DOMAIN accounts

\* a strong transfer that forgets the ledger
StrongModeStrategy_no_ledger(request, request_hash) ==
    LET src == request.source_account_id
        dst == request.destination_account_id
        amt == request.amount_cents
        payment == create_payment(request, request_hash, COMPLETED)
    IN
    IF ~accounts_exist(src, dst) THEN DomainError(422, "INVALID_PAYMENT")
    ELSE IF ~validate_funds(accounts[src], amt) THEN DomainError(422, "INSUFFICIENT_FUNDS")
    ELSE [ok |-> TRUE,
          accounts |-> [accounts EXCEPT
              ![src].available_balance_cents = @ - amt,
              ![src].version = @ + 1,
              ![dst].available_balance_cents = @ + amt,
              ![dst].version = @ + 1],
          payments |-> Append(payments, payment),
          outbox_events |-> outbox_events,
          ledger_entries |-> ledger_entries,
          response |-> [payment_id |-> payment.id, status |-> COMPLETED]]

\* a strong transfer that leaves the destination's version alone
StrongModeStrategy_one_version(request, request_hash) ==
    LET src == request.source_account_id
        dst == request.destination_account_id
        amt == request.amount_cents
        payment == create_payment(request, request_hash, COMPLETED)
    IN
    IF ~accounts_exist(src, dst) THEN DomainError(422, "INVALID_PAYMENT")
    ELSE IF ~validate_funds(accounts[src], amt) THEN DomainError(422, "INSUFFICIENT_FUNDS")
    ELSE [ok |-> TRUE,
          accounts |-> [accounts EXCEPT
              ![src].available_balance_cents = @ - amt,
              ![src].version = @ + 1,
              ![dst].available_balance_cents = @ + amt],
          payments |-> Append(payments, payment),
          outbox_events |-> outbox_events,
          ledger_entries |-> add_ledger_entries(ledger_entries, payment.id, src, dst, amt),
          response |-> [payment_id |-> payment.id, status |-> COMPLETED]]

StrongModeStrategy(request, request_hash) ==
    LET src == request.source_account_id
        dst == request.destination_account_id
        amt == request.amount_cents
        payment == create_payment(request, request_hash, COMPLETED)
    IN
    IF ~accounts_exist(src, dst) THEN DomainError(422, "INVALID_PAYMENT")
    ELSE IF ~validate_funds(accounts[src], amt) THEN DomainError(422, "INSUFFICIENT_FUNDS")
    ELSE [ok |-> TRUE,
          accounts |-> [accounts EXCEPT
              ![src].available_balance_cents = @ - amt,
              ![src].version = @ + 1,
              ![dst].available_balance_cents = @ + amt,
              ![dst].version = @ + 1],
          payments |-> Append(payments, payment),
          outbox_events |-> outbox_events,
          ledger_entries |-> add_ledger_entries(ledger_entries, payment.id, src, dst, amt),
          response |-> [payment_id |-> payment.id, status |-> COMPLETED]]

\* a hybrid reservation that takes the funds out of available without holding them
HybridModeStrategy_no_reserve(request, request_hash) ==
    LET src == request.source_account_id
        dst == request.destination_account_id
        amt == request.amount_cents
        payment == create_payment(request, request_hash, RESERVED)
    IN
    IF ~accounts_exist(src, dst) THEN DomainError(422, "INVALID_PAYMENT")
    ELSE IF ~validate_funds(accounts[src], amt) THEN DomainError(422, "INSUFFICIENT_FUNDS")
    ELSE [ok |-> TRUE,
          accounts |-> [accounts EXCEPT
              ![src].available_balance_cents = @ - amt,
              ![src].version = @ + 1],
          payments |-> Append(payments, payment),
          outbox_events |-> Append(outbox_events,
                                   add_outbox(payment.id, PAYMENT_RESERVED, request)),
          ledger_entries |-> ledger_entries,
          response |-> [payment_id |-> payment.id, status |-> RESERVED]]

HybridModeStrategy(request, request_hash) ==
    LET src == request.source_account_id
        dst == request.destination_account_id
        amt == request.amount_cents
        payment == create_payment(request, request_hash, RESERVED)
    IN
    IF ~accounts_exist(src, dst) THEN DomainError(422, "INVALID_PAYMENT")
    ELSE IF ~validate_funds(accounts[src], amt) THEN DomainError(422, "INSUFFICIENT_FUNDS")
    ELSE [ok |-> TRUE,
          accounts |-> [accounts EXCEPT
              ![src].available_balance_cents = @ - amt,
              ![src].reserved_balance_cents = @ + amt,
              ![src].version = @ + 1],
          payments |-> Append(payments, payment),
          outbox_events |-> Append(outbox_events,
                                   add_outbox(payment.id, PAYMENT_RESERVED, request)),
          ledger_entries |-> ledger_entries,
          response |-> [payment_id |-> payment.id, status |-> RESERVED]]

\* an eventual intake that writes the payment without its outbox event
EventualModeStrategy_no_outbox(request, request_hash) ==
    LET payment == create_payment(request, request_hash, RECEIVED) IN
    [ok |-> TRUE,
     accounts |-> accounts,
     payments |-> Append(payments, payment),
     outbox_events |-> outbox_events,
     ledger_entries |-> ledger_entries,
     response |-> [payment_id |-> payment.id, status |-> RECEIVED]]

\* an eventual intake that checks the source's funds like the other modes
EventualModeStrategy_checks_funds(request, request_hash) ==
    LET payment == create_payment(request, request_hash, RECEIVED) IN
    IF ~validate_funds(accounts[request.source_account_id], request.amount_cents)
    THEN DomainError(422, "INSUFFICIENT_FUNDS")
    ELSE [ok |-> TRUE,
          accounts |-> accounts,
          payments |-> Append(payments, payment),
          outbox_events |-> Append(outbox_events,
                                   add_outbox(payment.id, PAYMENT_REQUESTED, request)),
          ledger_entries |-> ledger_entries,
          response |-> [payment_id |-> payment.id, status |-> RECEIVED]]

EventualModeStrategy(request, request_hash) ==
    LET payment == create_payment(request, request_hash, RECEIVED) IN
    [ok |-> TRUE,
     accounts |-> accounts,
     payments |-> Append(payments, payment),
     outbox_events |-> Append(outbox_events,
                              add_outbox(payment.id, PAYMENT_REQUESTED, request)),
     ledger_entries |-> ledger_entries,
     response |-> [payment_id |-> payment.id, status |-> RECEIVED]]

execute_mode(mode, request, request_hash) ==
    CASE mode = STRONG -> StrongModeStrategy(request, request_hash)
      [] mode = HYBRID -> HybridModeStrategy(request, request_hash)
      [] mode = EVENTUAL -> EventualModeStrategy(request, request_hash)

\* a schema without the unique constraints
IntegrityError_never(key) == FALSE

\* the unique constraints on payments.idempotency_key and idempotency_keys.key
IntegrityError(key) ==
    \/ \E i \in DOMAIN payments : payments[i].idempotency_key = key
    \/ \E row \in idempotency_keys : row.key = key

\* execute returns or raises: the use case is gone, the client keeps the answer
Returned(http_status, error_code, response, created, integrity_error) ==
    [pc |-> "done", request |-> NoRequest, mode |-> NULL, request_hash |-> NoHash,
     http_status |-> http_status, error_code |-> error_code,
     response |-> response, created |-> created,
     integrity_error |-> integrity_error]

Finish(r, answer) ==
    intake' = [intake EXCEPT ![r] = answer]

FromIdempotency(found, integrity_error) ==
    IF found.kind = "replay"
    THEN Returned(200, NULL, found.response, FALSE, integrity_error)
    ELSE Returned(found.http_status, found.error_code, NoResponse, FALSE, integrity_error)

\* keys and accounts are opaque: the first request uses the first key and
\* debits the first account
RequestsOf(r) ==
    {request \in CreatePaymentRequest :
        r = 1 => /\ request.idempotency_key = "idem-key-1"
                 /\ request.source_account_id = "acc-001"}

\* execute: _validate_request and compute_request_hash, in an API process
\* configured with one of modes
SubmitIn(r, modes) ==
    /\ intake[r].pc = "new"
    /\ \A q \in Requests : q < r => intake[q].pc # "new"
    /\ \E request \in RequestsOf(r), mode \in modes :
         IF ~validate_request(request)
         THEN Finish(r, Returned(422, "INVALID_PAYMENT", NoResponse, FALSE, FALSE))
         ELSE intake' = [intake EXCEPT ![r] = [@ EXCEPT
                            !.pc = "started", !.request = request, !.mode = mode,
                            !.request_hash = compute_request_hash(request)]]
    /\ UNCHANGED <<db, now, worker>>

Submit(r) == SubmitIn(r, ConsistencyMode)

\* _run_transaction: the idempotency read that opens the transaction
IntakeBegin(r) ==
    /\ intake[r].pc = "started"
    /\ LET found == get_or_validate_idempotency(intake[r].request.idempotency_key,
                                                intake[r].request_hash)
       IN
       IF found.kind = "none"
       THEN intake' = [intake EXCEPT ![r].pc = "checked"]
       ELSE Finish(r, FromIdempotency(found, FALSE))
    /\ UNCHANGED <<db, now, worker>>

\* an IntegrityError handler that answers 503 without reading the row again
handle_integrity_error_no_reread(key, request_hash) ==
    Returned(503, "IDEMPOTENCY_UNAVAILABLE", NoResponse, FALSE, TRUE)

\* _run_transaction: except IntegrityError - roll back, read the idempotency
\* row again, replay it or raise
handle_integrity_error(key, request_hash) ==
    LET found == get_or_validate_idempotency(key, request_hash) IN
    IF found.kind = "none"
    THEN Returned(503, "IDEMPOTENCY_UNAVAILABLE", NoResponse, FALSE, TRUE)
    ELSE FromIdempotency(found, TRUE)

\* _run_transaction: the mode strategy, the idempotency row, the commit and
\* the IntegrityError handler, for a call that has come to pc
IntakeCommitAt(r, pc) ==
    /\ intake[r].pc = pc
    /\ LET request == intake[r].request
           result == execute_mode(intake[r].mode, request, intake[r].request_hash)
       IN
       IF ~result.ok
       THEN /\ Finish(r, Returned(result.http_status, result.error_code, NoResponse, FALSE, FALSE))
            /\ UNCHANGED db
       ELSE IF IntegrityError(request.idempotency_key)
       THEN /\ Finish(r, handle_integrity_error(request.idempotency_key,
                                                intake[r].request_hash))
            /\ UNCHANGED db
       ELSE /\ accounts' = result.accounts
            /\ payments' = result.payments
            /\ outbox_events' = result.outbox_events
            /\ ledger_entries' = result.ledger_entries
            /\ idempotency_keys' = idempotency_keys \cup
                   {[key |-> request.idempotency_key,
                     request_hash |-> intake[r].request_hash,
                     response_payload_json |-> model_dump_json(result.response)]}
            /\ Finish(r, Returned(200, NULL, result.response, TRUE, FALSE))
    /\ UNCHANGED <<now, worker>>

IntakeCommit(r) == IntakeCommitAt(r, "checked")

\* ------------------------------------------------- worker: ledger-worker
\* a WHERE clause that never takes back an event in processing
Eligible_pending_only(event) ==
    /\ event.status = PENDING
    /\ (event.next_retry_at = NullTime \/ event.next_retry_at <= now)

\* OutboxRepository.fetch_batch_for_processing: the WHERE clause
Eligible(event) ==
    \/ /\ event.status = PENDING
       /\ (event.next_retry_at = NullTime \/ event.next_retry_at <= now)
    \/ /\ event.status = PROCESSING
       /\ (event.next_retry_at = NullTime \/ event.next_retry_at <= now)

\* ORDER BY created_at ASC, id ASC
OrderedBefore(e, f) ==
    \/ e.created_at < f.created_at
    \/ e.created_at = f.created_at /\ e.id <= f.id

\* ORDER BY created_at DESC, id DESC LIMIT batch_size
RECURSIVE TakeOrdered_newest_first(_, _)
TakeOrdered_newest_first(ids, limit) ==
    IF ids = {} \/ limit = 0 THEN <<>>
    ELSE LET first == CHOOSE i \in ids :
                 \A j \in ids : OrderedBefore(outbox_events[j], outbox_events[i])
         IN <<first>> \o TakeOrdered_newest_first(ids \ {first}, limit - 1)

\* ... LIMIT batch_size
RECURSIVE TakeOrdered(_, _)
TakeOrdered(ids, limit) ==
    IF ids = {} \/ limit = 0 THEN <<>>
    ELSE LET first == CHOOSE i \in ids :
                 \A j \in ids : OrderedBefore(outbox_events[i], outbox_events[j])
         IN <<first>> \o TakeOrdered(ids \ {first}, limit - 1)

\* where a delivery transaction stands once it has locked its event row:
\* _load_event_for_update, get_payment_for_update, the two
\* get_account_for_update of _lock_accounts
LockedPcs == {"locked_event", "locked_payment", "locked_first", "locked_both"}

\* the event rows that an open delivery transaction has locked
LockedEvents ==
    {Head(worker[w].event_ids) : w \in {v \in Workers : worker[v].pc \in LockedPcs}}

\* ... FOR UPDATE SKIP LOCKED
fetch_batch_for_processing(batch_size) ==
    TakeOrdered({i \in DOMAIN outbox_events :
                    Eligible(outbox_events[i]) /\ i \notin LockedEvents},
                batch_size)

SeqToSet(s) == {s[i] : i \in DOMAIN s}

\* a success that clears the lease and leaves the status alone
mark_processed_keeps_status(event) ==
    [event EXCEPT !.next_retry_at = NullTime]

mark_processed(event) ==
    [event EXCEPT !.status = PROCESSED, !.next_retry_at = NullTime]

\* a retry that never gives up
mark_retry_never_dead(event, next_retry_at) ==
    [event EXCEPT !.attempts = event.attempts + 1, !.status = PENDING,
                  !.next_retry_at = next_retry_at]

mark_retry(event, next_retry_at) ==
    LET attempts == event.attempts + 1 IN
    IF attempts >= MaxAttempts
    THEN [event EXCEPT !.attempts = attempts, !.status = DEAD, !.next_retry_at = NullTime]
    ELSE [event EXCEPT !.attempts = attempts, !.status = PENDING,
                       !.next_retry_at = next_retry_at]

IsTerminal(status) == status \in {COMPLETED, REJECTED}

WorkerError(message) == [raised |-> TRUE, message |-> message]

Committed(accts, pays, ledger, event) ==
    [raised |-> FALSE, accounts |-> accts, payments |-> pays,
     ledger_entries |-> ledger, event |-> event]

\* a hybrid finalization without the already-terminal short-circuit
handle_hybrid_event_no_replay_check(event, payload) ==
    LET payment_id == payload.payment_id
        src == payload.source_account_id
        dst == payload.destination_account_id
        amt == payload.amount_cents
    IN
    IF payment_id \notin DOMAIN payments THEN WorkerError("payment not found")
    ELSE IF ~accounts_exist(src, dst) THEN WorkerError("account not found")
    ELSE IF accounts[src].reserved_balance_cents < amt
    THEN WorkerError("reserved funds below amount")
    ELSE Committed(
            [accounts EXCEPT
                ![src].reserved_balance_cents = @ - amt,
                ![src].version = @ + 1,
                ![dst].available_balance_cents = @ + amt,
                ![dst].version = @ + 1],
            [payments EXCEPT ![payment_id].status = COMPLETED],
            add_ledger_entries(ledger_entries, payment_id, src, dst, amt),
            mark_processed(event))

\* a hybrid finalization that credits the destination and keeps the reservation
handle_hybrid_event_keeps_reserved(event, payload) ==
    LET payment_id == payload.payment_id
        src == payload.source_account_id
        dst == payload.destination_account_id
        amt == payload.amount_cents
    IN
    IF payment_id \notin DOMAIN payments THEN WorkerError("payment not found")
    ELSE IF IsTerminal(payments[payment_id].status)
    THEN Committed(accounts, payments, ledger_entries, mark_processed(event))
    ELSE IF ~accounts_exist(src, dst) THEN WorkerError("account not found")
    ELSE IF accounts[src].reserved_balance_cents < amt
    THEN WorkerError("reserved funds below amount")
    ELSE Committed(
            [accounts EXCEPT
                ![src].version = @ + 1,
                ![dst].available_balance_cents = @ + amt,
                ![dst].version = @ + 1],
            [payments EXCEPT ![payment_id].status = COMPLETED],
            add_ledger_entries(ledger_entries, payment_id, src, dst, amt),
            mark_processed(event))

\* a hybrid finalization that takes the amount from available, not from reserved
handle_hybrid_event_spends_available(event, payload) ==
    LET payment_id == payload.payment_id
        src == payload.source_account_id
        dst == payload.destination_account_id
        amt == payload.amount_cents
    IN
    IF payment_id \notin DOMAIN payments THEN WorkerError("payment not found")
    ELSE IF IsTerminal(payments[payment_id].status)
    THEN Committed(accounts, payments, ledger_entries, mark_processed(event))
    ELSE IF ~accounts_exist(src, dst) THEN WorkerError("account not found")
    ELSE IF accounts[src].reserved_balance_cents < amt
    THEN WorkerError("reserved funds below amount")
    ELSE Committed(
            [accounts EXCEPT
                ![src].available_balance_cents = @ - amt,
                ![src].version = @ + 1,
                ![dst].available_balance_cents = @ + amt,
                ![dst].version = @ + 1],
            [payments EXCEPT ![payment_id].status = COMPLETED],
            add_ledger_entries(ledger_entries, payment_id, src, dst, amt),
            mark_processed(event))

handle_hybrid_event(event, payload) ==
    LET payment_id == payload.payment_id
        src == payload.source_account_id
        dst == payload.destination_account_id
        amt == payload.amount_cents
    IN
    IF payment_id \notin DOMAIN payments THEN WorkerError("payment not found")
    ELSE IF IsTerminal(payments[payment_id].status)
    THEN Committed(accounts, payments, ledger_entries, mark_processed(event))
    ELSE IF ~accounts_exist(src, dst) THEN WorkerError("account not found")
    ELSE IF accounts[src].reserved_balance_cents < amt
    THEN WorkerError("reserved funds below amount")
    ELSE Committed(
            [accounts EXCEPT
                ![src].reserved_balance_cents = @ - amt,
                ![src].version = @ + 1,
                ![dst].available_balance_cents = @ + amt,
                ![dst].version = @ + 1],
            [payments EXCEPT ![payment_id].status = COMPLETED],
            add_ledger_entries(ledger_entries, payment_id, src, dst, amt),
            mark_processed(event))

\* an eventual settlement without the already-terminal short-circuit
handle_eventual_event_no_replay_check(event, payload) ==
    LET payment_id == payload.payment_id
        src == payload.source_account_id
        dst == payload.destination_account_id
        amt == payload.amount_cents
    IN
    IF payment_id \notin DOMAIN payments THEN WorkerError("payment not found")
    ELSE IF ~accounts_exist(src, dst) THEN WorkerError("account not found")
    ELSE IF accounts[src].available_balance_cents < amt
    THEN Committed(accounts,
                   [payments EXCEPT ![payment_id].status = REJECTED],
                   ledger_entries,
                   mark_processed(event))
    ELSE Committed(
            [accounts EXCEPT
                ![src].available_balance_cents = @ - amt,
                ![src].version = @ + 1,
                ![dst].available_balance_cents = @ + amt,
                ![dst].version = @ + 1],
            [payments EXCEPT ![payment_id].status = COMPLETED],
            add_ledger_entries(ledger_entries, payment_id, src, dst, amt),
            mark_processed(event))

\* an eventual settlement that bumps the source's version when it rejects
handle_eventual_event_touches_on_reject(event, payload) ==
    LET payment_id == payload.payment_id
        src == payload.source_account_id
        dst == payload.destination_account_id
        amt == payload.amount_cents
    IN
    IF payment_id \notin DOMAIN payments THEN WorkerError("payment not found")
    ELSE IF IsTerminal(payments[payment_id].status)
    THEN Committed(accounts, payments, ledger_entries, mark_processed(event))
    ELSE IF ~accounts_exist(src, dst) THEN WorkerError("account not found")
    ELSE IF accounts[src].available_balance_cents < amt
    THEN Committed([accounts EXCEPT ![src].version = @ + 1],
                   [payments EXCEPT ![payment_id].status = REJECTED],
                   ledger_entries,
                   mark_processed(event))
    ELSE Committed(
            [accounts EXCEPT
                ![src].available_balance_cents = @ - amt,
                ![src].version = @ + 1,
                ![dst].available_balance_cents = @ + amt,
                ![dst].version = @ + 1],
            [payments EXCEPT ![payment_id].status = COMPLETED],
            add_ledger_entries(ledger_entries, payment_id, src, dst, amt),
            mark_processed(event))

\* an eventual handler that debits the source and never credits the destination
handle_eventual_event_no_credit(event, payload) ==
    LET payment_id == payload.payment_id
        src == payload.source_account_id
        dst == payload.destination_account_id
        amt == payload.amount_cents
    IN
    IF payment_id \notin DOMAIN payments THEN WorkerError("payment not found")
    ELSE IF IsTerminal(payments[payment_id].status)
    THEN Committed(accounts, payments, ledger_entries, mark_processed(event))
    ELSE IF ~accounts_exist(src, dst) THEN WorkerError("account not found")
    ELSE IF accounts[src].available_balance_cents < amt
    THEN Committed(accounts,
                   [payments EXCEPT ![payment_id].status = REJECTED],
                   ledger_entries,
                   mark_processed(event))
    ELSE Committed(
            [accounts EXCEPT
                ![src].available_balance_cents = @ - amt,
                ![src].version = @ + 1,
                ![dst].version = @ + 1],
            [payments EXCEPT ![payment_id].status = COMPLETED],
            add_ledger_entries(ledger_entries, payment_id, src, dst, amt),
            mark_processed(event))

\* an eventual handler that acknowledges an uncovered payment without
\* rejecting it
handle_eventual_event_no_reject(event, payload) ==
    LET payment_id == payload.payment_id
        src == payload.source_account_id
        dst == payload.destination_account_id
        amt == payload.amount_cents
    IN
    IF payment_id \notin DOMAIN payments THEN WorkerError("payment not found")
    ELSE IF IsTerminal(payments[payment_id].status)
    THEN Committed(accounts, payments, ledger_entries, mark_processed(event))
    ELSE IF ~accounts_exist(src, dst) THEN WorkerError("account not found")
    ELSE IF accounts[src].available_balance_cents < amt
    THEN Committed(accounts, payments, ledger_entries, mark_processed(event))
    ELSE Committed(
            [accounts EXCEPT
                ![src].available_balance_cents = @ - amt,
                ![src].version = @ + 1,
                ![dst].available_balance_cents = @ + amt,
                ![dst].version = @ + 1],
            [payments EXCEPT ![payment_id].status = COMPLETED],
            add_ledger_entries(ledger_entries, payment_id, src, dst, amt),
            mark_processed(event))

handle_eventual_event(event, payload) ==
    LET payment_id == payload.payment_id
        src == payload.source_account_id
        dst == payload.destination_account_id
        amt == payload.amount_cents
    IN
    IF payment_id \notin DOMAIN payments THEN WorkerError("payment not found")
    ELSE IF IsTerminal(payments[payment_id].status)
    THEN Committed(accounts, payments, ledger_entries, mark_processed(event))
    ELSE IF ~accounts_exist(src, dst) THEN WorkerError("account not found")
    ELSE IF accounts[src].available_balance_cents < amt
    THEN Committed(accounts,
                   [payments EXCEPT ![payment_id].status = REJECTED],
                   ledger_entries,
                   mark_processed(event))
    ELSE Committed(
            [accounts EXCEPT
                ![src].available_balance_cents = @ - amt,
                ![src].version = @ + 1,
                ![dst].available_balance_cents = @ + amt,
                ![dst].version = @ + 1],
            [payments EXCEPT ![payment_id].status = COMPLETED],
            add_ledger_entries(ledger_entries, payment_id, src, dst, amt),
            mark_processed(event))

\* a strong strategy that finalizes the reservations it is handed
strategy_process_strong_finalizes(mode, event, payload) ==
    CASE mode = STRONG ->
            IF event.event_type = PAYMENT_RESERVED
            THEN handle_hybrid_event(event, payload)
            ELSE Committed(accounts, payments, ledger_entries, mark_processed(event))
      [] mode = HYBRID ->
            IF event.event_type # PAYMENT_RESERVED
            THEN WorkerError("unexpected event")
            ELSE handle_hybrid_event(event, payload)
      [] mode = EVENTUAL ->
            IF event.event_type # PAYMENT_REQUESTED
            THEN WorkerError("unexpected event")
            ELSE handle_eventual_event(event, payload)

\* a hybrid strategy that settles the requests of eventual intake as well
strategy_process_hybrid_settles_requests(mode, event, payload) ==
    CASE mode = STRONG ->
            Committed(accounts, payments, ledger_entries, mark_processed(event))
      [] mode = HYBRID ->
            IF event.event_type # PAYMENT_RESERVED
            THEN handle_eventual_event(event, payload)
            ELSE handle_hybrid_event(event, payload)
      [] mode = EVENTUAL ->
            IF event.event_type # PAYMENT_REQUESTED
            THEN WorkerError("unexpected event")
            ELSE handle_eventual_event(event, payload)

\* WorkerModeStrategy.process of the three strategies
strategy_process(mode, event, payload) ==
    CASE mode = STRONG ->
            Committed(accounts, payments, ledger_entries, mark_processed(event))
      [] mode = HYBRID ->
            IF event.event_type # PAYMENT_RESERVED
            THEN WorkerError("unexpected event")
            ELSE handle_hybrid_event(event, payload)
      [] mode = EVENTUAL ->
            IF event.event_type # PAYMENT_REQUESTED
            THEN WorkerError("unexpected event")
            ELSE handle_eventual_event(event, payload)

\* _parse_payload: every required field present and of the right type
parse_payload(payload_json) ==
    IF /\ payload_json.payment_id \in Nat /\ payload_json.payment_id > 0
       /\ payload_json.source_account_id \in STRING
       /\ payload_json.destination_account_id \in STRING
       /\ payload_json.amount_cents \in Int
    THEN [ok |-> TRUE,
          payment_id |-> payload_json.payment_id,
          source_account_id |-> payload_json.source_account_id,
          destination_account_id |-> payload_json.destination_account_id,
          amount_cents |-> payload_json.amount_cents]
    ELSE [ok |-> FALSE]

\* _process_event without the injected faults
process_event(mode, event) ==
    LET payload == parse_payload(event.payload_json) IN
    IF ~payload.ok THEN WorkerError("invalid payload field")
    ELSE strategy_process(mode, event, payload)

Current(w) == Head(worker[w].event_ids)

\* process_available_events: back to the loop once the batch is done
NextEvent(w) ==
    worker' = [worker EXCEPT
        ![w].event_ids = Tail(@),
        ![w].pc = IF Len(worker[w].event_ids) = 1 THEN "idle" ELSE "run",
        ![w].lease_expiration = IF Len(worker[w].event_ids) = 1 THEN NullTime ELSE @]

\* a claim that counts an attempt when it takes over an expired lease
AcquireBatch_counts_reclaims(w, batch_size) ==
    /\ worker[w].pc = "idle"
    /\ LET ids == fetch_batch_for_processing(batch_size) IN
       /\ ids # <<>>
       /\ outbox_events' = [i \in DOMAIN outbox_events |->
              IF i \in SeqToSet(ids)
              THEN [outbox_events[i] EXCEPT
                       !.attempts = IF outbox_events[i].status = PROCESSING
                                    THEN @ + 1 ELSE @,
                       !.status = PROCESSING,
                       !.next_retry_at = now + LeaseTtl]
              ELSE outbox_events[i]]
       /\ worker' = [worker EXCEPT ![w].event_ids = ids, ![w].pc = "run",
                                   ![w].lease_expiration = now + LeaseTtl]
    /\ UNCHANGED <<accounts, payments, idempotency_keys, ledger_entries, now, intake>>

\* _acquire_event_ids: claim a batch and stamp the lease, in one transaction
AcquireBatch(w, batch_size) ==
    /\ worker[w].pc = "idle"
    /\ LET ids == fetch_batch_for_processing(batch_size) IN
       /\ ids # <<>>
       /\ outbox_events' = [i \in DOMAIN outbox_events |->
              IF i \in SeqToSet(ids)
              THEN [outbox_events[i] EXCEPT !.status = PROCESSING,
                                            !.next_retry_at = now + LeaseTtl]
              ELSE outbox_events[i]]
       /\ worker' = [worker EXCEPT ![w].event_ids = ids, ![w].pc = "run",
                                   ![w].lease_expiration = now + LeaseTtl]
    /\ UNCHANGED <<accounts, payments, idempotency_keys, ledger_entries, now, intake>>

Acquire(w) == AcquireBatch(w, BatchSize)

\* _process_event_by_id: the transaction commits, for a delivery that has come
\* to pc
ProcessAt(w, pc) ==
    /\ worker[w].pc = pc
    /\ IF Current(w) \notin DOMAIN outbox_events
       THEN UNCHANGED db
       ELSE LET result == process_event(worker[w].mode, outbox_events[Current(w)]) IN
            /\ ~result.raised
            /\ accounts' = result.accounts
            /\ payments' = result.payments
            /\ ledger_entries' = result.ledger_entries
            /\ outbox_events' = [outbox_events EXCEPT ![Current(w)] = result.event]
            /\ UNCHANGED idempotency_keys
    /\ NextEvent(w)
    /\ UNCHANGED <<now, intake>>

Process(w) == ProcessAt(w, "run")

\* _process_event_by_id: the strategy raises WorkerError, the transaction rolls back
ProcessWorkerError(w) ==
    /\ worker[w].pc = "run"
    /\ Current(w) \in DOMAIN outbox_events
    /\ process_event(worker[w].mode, outbox_events[Current(w)]).raised
    /\ worker' = [worker EXCEPT ![w].pc = "permanent"]
    /\ UNCHANGED <<db, now, intake>>

\* _process_event_by_id: an injected fault or a storage error, the transaction rolls back
FaultsSoFar ==
    LET RECURSIVE Attempts(_)
        Attempts(i) == IF i = 0 THEN 0 ELSE outbox_events[i].attempts + Attempts(i - 1)
    IN Attempts(Len(outbox_events)) + Cardinality({w \in Workers : worker[w].pc = "transient"})

\* a transaction whose failure keeps what the block had written
Rollback_partial(before, attempted) == attempted

\* with session.begin(): an exception that leaves the block rolls back
\* everything the block wrote
Rollback(before, attempted) == before

\* an injected fault raised before the strategy runs, or a storage error raised
\* when the strategy's writes are flushed; at most budget of them in a behaviour
RaiseException(w, budget) ==
    /\ worker[w].pc = "run"
    /\ FaultsSoFar < budget
    /\ Current(w) \in DOMAIN outbox_events
    /\ parse_payload(outbox_events[Current(w)].payload_json).ok
    /\ LET event == outbox_events[Current(w)]
           result == process_event(worker[w].mode, event)
           attempted == IF result.raised
                        THEN Committed(accounts, payments, ledger_entries, event)
                        ELSE result
       IN
       /\ accounts' = Rollback(accounts, attempted.accounts)
       /\ payments' = Rollback(payments, attempted.payments)
       /\ ledger_entries' = Rollback(ledger_entries, attempted.ledger_entries)
       /\ outbox_events' = Rollback(outbox_events,
              [outbox_events EXCEPT ![Current(w)] = attempted.event])
    /\ worker' = [worker EXCEPT ![w].pc = "transient"]
    /\ UNCHANGED <<idempotency_keys, now, intake>>

ProcessException(w) == RaiseException(w, MaxFaults)

\* a permanent failure that is scheduled for retry like a transient one
handle_permanent_failure_retries(event) ==
    mark_retry(event, now + 2)

handle_permanent_failure(event) ==
    [event EXCEPT !.status = DEAD, !.next_retry_at = NullTime]

\* a backoff that starts at one second
retry_delay_seconds_from_one(attempts) == Pow2(Min(attempts, MaxBackoffExp))

retry_delay_seconds(attempts) == Pow2(Min(attempts + 1, MaxBackoffExp))

handle_transient_failure(event) ==
    mark_retry(event, now + retry_delay_seconds(event.attempts))

HandlePermanentFailure(w) ==
    /\ worker[w].pc = "permanent"
    /\ outbox_events' = [outbox_events EXCEPT
           ![Current(w)] = handle_permanent_failure(@)]
    /\ NextEvent(w)
    /\ UNCHANGED <<accounts, payments, idempotency_keys, ledger_entries, now, intake>>

HandleTransientFailure(w) ==
    /\ worker[w].pc = "transient"
    /\ outbox_events' = [outbox_events EXCEPT
           ![Current(w)] = handle_transient_failure(@)]
    /\ NextEvent(w)
    /\ UNCHANGED <<accounts, payments, idempotency_keys, ledger_entries, now, intake>>

\* ------------------------------------------------------------------ clock
Deadlines ==
    {outbox_events[i].next_retry_at : i \in
        {j \in DOMAIN outbox_events : outbox_events[j].next_retry_at # NullTime}}

\* time passes until the next lease or retry timer runs out
Advance(limit) ==
    /\ \E t \in Deadlines :
          /\ t > now
          /\ t <= limit
          /\ \A u \in Deadlines : u > now => t <= u
          /\ now' = t
    /\ UNCHANGED <<db, intake, worker>>

Tick == Advance(MaxTime)

Next ==
    \/ \E r \in Requests : Submit(r)
    \/ \E r \in Requests : IntakeBegin(r)
    \/ \E r \in Requests : IntakeCommit(r)
    \/ \E w \in Workers : Acquire(w)
    \/ \E w \in Workers : Process(w)
    \/ \E w \in Workers : ProcessWorkerError(w)
    \/ \E w \in Workers : ProcessException(w)
    \/ \E w \in Workers : HandlePermanentFailure(w)
    \/ \E w \in Workers : HandleTransientFailure(w)
    \/ Tick

Spec == Init /\ [][Next]_vars

\* ------------------------------------- retries up to the dead-letter limit
\* one payment, API and workers configured with the same mode, and enough
\* faults and time for an event to fail until it is dead
RetryRequests == {1}

RetrySubmit(r) == SubmitIn(r, {worker[w].mode : w \in Workers})

RetryProcessException(w) == RaiseException(w, MaxRetryFaults)

RetryTick == Advance(MaxRetryTime)

RetryNext ==
    \/ \E r \in RetryRequests : RetrySubmit(r)
    \/ \E r \in RetryRequests : IntakeBegin(r)
    \/ \E r \in RetryRequests : IntakeCommit(r)
    \/ \E w \in Workers : Acquire(w)
    \/ \E w \in Workers : Process(w)
    \/ \E w \in Workers : RetryProcessException(w)
    \/ \E w \in Workers : HandleTransientFailure(w)
    \/ RetryTick

\* run_loop polls for ever, a delivery ends one way or the other, the failure
\* handler follows the exception, time passes
RetrySpec ==
    /\ Init
    /\ [][RetryNext]_vars
    /\ \A w \in Workers :
          /\ WF_vars(Acquire(w))
          /\ WF_vars(Process(w) \/ RetryProcessException(w))
          /\ WF_vars(HandleTransientFailure(w))
    /\ WF_vars(RetryTick)

\* ----------------------------------- a fault-free deployment that keeps running
\* the worker process dies: its batch is forgotten, the leases it stamped stay
Crash(w) ==
    /\ worker[w].pc = "run"
    /\ \E v \in Workers \ {w} : worker[v].pc # "crashed"
    /\ worker' = [worker EXCEPT ![w].pc = "crashed", ![w].event_ids = <<>>,
                                ![w].lease_expiration = NullTime]
    /\ UNCHANGED <<db, now, intake>>

FairSubmit(r) == SubmitIn(r, {worker[w].mode : w \in Workers})

FairAcquire(w) == AcquireBatch(w, FairBatchSize)

FairTick == Advance(MaxFairTime)

FairNext ==
    \/ \E r \in Requests : FairSubmit(r)
    \/ \E r \in Requests : IntakeBegin(r)
    \/ \E r \in Requests : IntakeCommit(r)
    \/ \E w \in Workers : FairAcquire(w)
    \/ \E w \in Workers : Process(w)
    \/ \E w \in Workers : Crash(w)
    \/ FairTick

\* run_loop polls for ever, a transaction that can commit does, time passes
FairSpec ==
    /\ Init
    /\ [][FairNext]_vars
    /\ \A w \in Workers : WF_vars(FairAcquire(w)) /\ WF_vars(Process(w))
    /\ WF_vars(FairTick)

\* ------------------------------------ row locks, one locking statement a step
\* the order of the seeded account ids as strings
AccountRank ==
    [a \in SEED_ACCOUNTS |->
        CASE a = "acc-001" -> 1 [] a = "acc-002" -> 2
          [] a = "acc-003" -> 3 [] a = "acc-004" -> 4]

\* an intake that locks the source first, whatever the ids
lock_accounts_source_first(source_id, destination_id) ==
    <<source_id, destination_id>>

\* CreatePaymentUseCase._lock_accounts: first_id, second_id
lock_accounts(source_id, destination_id) ==
    IF AccountRank[source_id] <= AccountRank[destination_id]
    THEN <<source_id, destination_id>>
    ELSE <<destination_id, source_id>>

\* WorkerProcessor._lock_accounts: first_id, second_id
worker_lock_accounts(source_id, destination_id) ==
    IF AccountRank[source_id] <= AccountRank[destination_id]
    THEN <<source_id, destination_id>>
    ELSE <<destination_id, source_id>>

\* row locks by table, and the unique index entries of uncommitted inserts
NoLocks == [accounts |-> {}, payments |-> {}, events |-> {}, keys |-> {}]

\* strong and hybrid strategies call _lock_accounts, the eventual one does not
IntakeLocksAccounts(r) == intake[r].mode \in {STRONG, HYBRID}

IntakeOrder(r) ==
    lock_accounts(intake[r].request.source_account_id,
                  intake[r].request.destination_account_id)

\* the strategy is through its locking reads and its checks: what is left is
\* the flush of its inserts
ReadyToWrite(r) ==
    \/ intake[r].pc = "locked_both"
    \/ intake[r].pc = "checked" /\ intake[r].mode = EVENTUAL

\* neither the strategy nor a committed row of the key stops the inserts
Insertable(r) ==
    /\ execute_mode(intake[r].mode, intake[r].request, intake[r].request_hash).ok
    /\ ~IntegrityError(intake[r].request.idempotency_key)

\* what the open transaction of call r holds
IntakeHeld(r) ==
    [NoLocks EXCEPT
        !.accounts =
            IF intake[r].pc = "locked_first" THEN {IntakeOrder(r)[1]}
            ELSE IF \/ intake[r].pc = "locked_both"
                    \/ intake[r].pc = "inserted" /\ IntakeLocksAccounts(r)
            THEN {IntakeOrder(r)[1], IntakeOrder(r)[2]}
            ELSE {},
        !.keys =
            IF intake[r].pc = "inserted"
            THEN {intake[r].request.idempotency_key} ELSE {}]

\* what the next statement of call r asks for
IntakeWants(r) ==
    [NoLocks EXCEPT
        !.accounts =
            IF intake[r].pc = "checked" /\ IntakeLocksAccounts(r)
            THEN {IntakeOrder(r)[1]}
            ELSE IF intake[r].pc = "locked_first" THEN {IntakeOrder(r)[2]}
            ELSE {},
        !.keys =
            IF ReadyToWrite(r) /\ Insertable(r)
            THEN {intake[r].request.idempotency_key} ELSE {}]

WorkerPayload(w) == outbox_events[Head(worker[w].event_ids)].payload_json

WorkerOrder(w) ==
    worker_lock_accounts(WorkerPayload(w).source_account_id,
                         WorkerPayload(w).destination_account_id)

\* the strategy of worker w goes on to get_payment_for_update
WorkerReadsPayment(w) ==
    \/ /\ worker[w].mode = HYBRID
       /\ outbox_events[Head(worker[w].event_ids)].event_type = PAYMENT_RESERVED
    \/ /\ worker[w].mode = EVENTUAL
       /\ outbox_events[Head(worker[w].event_ids)].event_type = PAYMENT_REQUESTED

\* what the open delivery transaction of worker w holds
WorkerHeld(w) ==
    [NoLocks EXCEPT
        !.events =
            IF worker[w].pc \in LockedPcs THEN {Head(worker[w].event_ids)} ELSE {},
        !.payments =
            IF worker[w].pc \in LockedPcs \ {"locked_event"}
            THEN {WorkerPayload(w).payment_id} ELSE {},
        !.accounts =
            IF worker[w].pc = "locked_first" THEN {WorkerOrder(w)[1]}
            ELSE IF worker[w].pc = "locked_both"
            THEN {WorkerOrder(w)[1], WorkerOrder(w)[2]}
            ELSE {}]

\* what the next statement of worker w asks for
WorkerWants(w) ==
    [NoLocks EXCEPT
        !.events =
            IF worker[w].pc = "run" THEN {Head(worker[w].event_ids)} ELSE {},
        !.payments =
            IF worker[w].pc = "locked_event" /\ WorkerReadsPayment(w)
            THEN {WorkerPayload(w).payment_id} ELSE {},
        !.accounts =
            IF /\ worker[w].pc = "locked_payment"
               /\ ~IsTerminal(payments[WorkerPayload(w).payment_id].status)
            THEN {WorkerOrder(w)[1]}
            ELSE IF worker[w].pc = "locked_first" THEN {WorkerOrder(w)[2]}
            ELSE {}]

\* what the calls rs and the workers ws hold together
HeldBy(rs, ws) ==
    [accounts |-> UNION ({IntakeHeld(r).accounts : r \in rs}
                         \cup {WorkerHeld(w).accounts : w \in ws}),
     payments |-> UNION {WorkerHeld(w).payments : w \in ws},
     events |-> UNION {WorkerHeld(w).events : w \in ws},
     keys |-> UNION {IntakeHeld(r).keys : r \in rs}]

\* some lock asked for is among the locks held
Meets(wants, held) ==
    \/ wants.accounts \cap held.accounts # {}
    \/ wants.payments \cap held.payments # {}
    \/ wants.events \cap held.events # {}
    \/ wants.keys \cap held.keys # {}

IntakeBlocked(r) == Meets(IntakeWants(r), HeldBy(DOMAIN intake \ {r}, Workers))

WorkerBlocked(w) == Meets(WorkerWants(w), HeldBy(DOMAIN intake, Workers \ {w}))

LockSubmit(r) == SubmitIn(r, {worker[w].mode : w \in Workers})

\* _lock_accounts: one get_for_update returns
LockIntakeAccount(r) ==
    /\ IntakeWants(r).accounts # {}
    /\ ~IntakeBlocked(r)
    /\ intake' = [intake EXCEPT
           ![r].pc = IF @ = "checked" THEN "locked_first" ELSE "locked_both"]
    /\ UNCHANGED <<db, now, worker>>

\* the strategy raises, or the insert hits a committed row of the key
LockIntakeRaise(r) ==
    /\ ReadyToWrite(r)
    /\ ~Insertable(r)
    /\ IntakeCommitAt(r, intake[r].pc)

\* the flush: the inserts go through once no open transaction has inserted the key
LockIntakeFlush(r) ==
    /\ IntakeWants(r).keys # {}
    /\ ~IntakeBlocked(r)
    /\ intake' = [intake EXCEPT ![r].pc = "inserted"]
    /\ UNCHANGED <<db, now, worker>>

LockIntakeCommit(r) == IntakeCommitAt(r, "inserted")

\* a locking read of the delivery transaction returns
WorkerLocks(w, from, to) ==
    /\ worker[w].pc = from
    /\ WorkerWants(w) # NoLocks
    /\ ~WorkerBlocked(w)
    /\ worker' = [worker EXCEPT ![w].pc = to]
    /\ UNCHANGED <<db, now, intake>>

\* _load_event_for_update
LockEvent(w) == WorkerLocks(w, "run", "locked_event")

\* get_payment_for_update
LockPayment(w) == WorkerLocks(w, "locked_event", "locked_payment")

\* _lock_accounts: one get_account_for_update returns
LockWorkerAccount(w) ==
    \/ WorkerLocks(w, "locked_payment", "locked_first")
    \/ WorkerLocks(w, "locked_first", "locked_both")

\* the strategy has all the rows it reads, the transaction commits
LockProcess(w) ==
    /\ worker[w].pc \in LockedPcs
    /\ WorkerWants(w) = NoLocks
    /\ ProcessAt(w, worker[w].pc)

LockTick == Advance(MaxLockTime)

LockNext ==
    \/ \E r \in Requests : LockSubmit(r)
    \/ \E r \in Requests : IntakeBegin(r)
    \/ \E r \in Requests : LockIntakeAccount(r)
    \/ \E r \in Requests : LockIntakeRaise(r)
    \/ \E r \in Requests : LockIntakeFlush(r)
    \/ \E r \in Requests : LockIntakeCommit(r)
    \/ \E w \in Workers : FairAcquire(w)
    \/ \E w \in Workers : LockEvent(w)
    \/ \E w \in Workers : LockPayment(w)
    \/ \E w \in Workers : LockWorkerAccount(w)
    \/ \E w \in Workers : LockProcess(w)
    \/ LockTick

LockSpec == Init /\ [][LockNext]_vars

\* ------------------------------- three calls, API and workers in one mode
IntakeRequests == {1, 2, 3}

IntakeInit == InitWith(IntakeRequests)

IntakeSubmit(r) == SubmitIn(r, {worker[w].mode : w \in Workers})

IntakeNext ==
    \/ \E r \in IntakeRequests : IntakeSubmit(r)
    \/ \E r \in IntakeRequests : IntakeBegin(r)
    \/ \E r \in IntakeRequests : IntakeCommit(r)
    \/ \E w \in Workers : FairAcquire(w)
    \/ \E w \in Workers : Process(w)

IntakeSpec == IntakeInit /\ [][IntakeNext]_vars

\* ------------------------------------------------------------ properties
\* DomainRepository.ledger_imbalance: sum of DEBIT amounts minus sum of CREDIT amounts
RECURSIVE ImbalanceOf(_)
ImbalanceOf(ledger) ==
    IF ledger = <<>> THEN 0
    ELSE (IF Head(ledger).direction = DEBIT
          THEN Head(ledger).amount_cents
          ELSE 0 - Head(ledger).amount_cents) + ImbalanceOf(Tail(ledger))

ledger_imbalance == ImbalanceOf(ledger_entries)

\* C1: balanced ledger - in every committed state the DEBIT amounts minus the
\* CREDIT amounts of all ledger entries sum to 0
C1_BalancedLedger == ledger_imbalance = 0

\* C1 witness: funds moved at intake and in the worker, one of them after a
\* failed delivery that was retried
C1_Witness ==
    /\ Len(ledger_entries) >= 4
    /\ \E i \in DOMAIN outbox_events :
          /\ outbox_events[i].attempts >= 1
          /\ outbox_events[i].status = PROCESSED
          /\ payments[outbox_events[i].aggregate_id].status = COMPLETED

\* DomainRepository.negative_balance_count
negative_balance_count ==
    Cardinality({a \in DOMAIN accounts :
        \/ accounts[a].available_balance_cents < 0
        \/ accounts[a].reserved_balance_cents < 0})

\* C2: no negative balances - every account has available >= 0 and
\* reserved >= 0 in every committed state
C2_NoNegativeBalances ==
    \A a \in DOMAIN accounts :
        /\ accounts[a].available_balance_cents >= 0
        /\ accounts[a].reserved_balance_cents >= 0

\* C2 witness: an account was debited and a later debit of it was refused at
\* intake for lack of funds
C2_Witness ==
    /\ \E r \in Requests : intake[r].error_code = "INSUFFICIENT_FUNDS"
    /\ \E a \in DOMAIN accounts : accounts[a].available_balance_cents < SeedBalance

RECURSIVE SumBalances(_)
SumBalances(ids) ==
    IF ids = {} THEN 0
    ELSE LET a == CHOOSE x \in ids : TRUE IN
         accounts[a].available_balance_cents + accounts[a].reserved_balance_cents
            + SumBalances(ids \ {a})

\* C3: conservation - the sum of available + reserved over all accounts
\* equals the seeded total in every reachable state
C3_Conservation ==
    SumBalances(DOMAIN accounts) = Cardinality(SEED_ACCOUNTS) * SeedBalance

\* C3 witness: a hybrid reservation is outstanding on one account while
\* another account has been credited by a finished transfer
C3_Witness ==
    /\ \E a \in DOMAIN accounts : accounts[a].reserved_balance_cents > 0
    /\ \E a \in DOMAIN accounts : accounts[a].available_balance_cents > SeedBalance
    /\ \E i \in DOMAIN outbox_events :
          /\ outbox_events[i].event_type = PAYMENT_RESERVED
          /\ outbox_events[i].status = PROCESSED
          /\ payments[outbox_events[i].aggregate_id].status = COMPLETED

\* an intake call returns in this step
Returns(r) == intake[r].pc \in {"started", "checked"} /\ intake'[r].pc = "done"

C4_Step ==
    /\ idempotency_keys \subseteq idempotency_keys'
    /\ \A r \in Requests :
          (Returns(r) /\ intake'[r].http_status = 200) =>
             LET key == intake[r].request.idempotency_key
                 before == {row \in idempotency_keys : row.key = key}
                 after == {row \in idempotency_keys' : row.key = key}
             IN
             /\ after # {}
             /\ \A row \in after :
                   /\ row.request_hash = intake[r].request_hash
                   /\ model_validate_json(row.response_payload_json) = intake'[r].response
             /\ IF intake'[r].created THEN before = {} ELSE UNCHANGED db

\* C4: idempotence of intake - a submission that is answered 200 either creates
\* the idempotency row of its key, or finds it with the same request hash,
\* changes nothing in the database and returns the response stored by the
\* first submission; stored rows never change
C4_IdempotentIntake == [][C4_Step]_vars

\* C4 witness: a replay answered with the stored status of a payment that the
\* worker has advanced since
C4_Witness ==
    \E r \in Requests :
        /\ intake[r].pc = "done"
        /\ intake[r].http_status = 200
        /\ ~intake[r].created
        /\ ~intake[r].integrity_error
        /\ intake[r].response.status \in {RESERVED, RECEIVED}
        /\ IsTerminal(payments[intake[r].response.payment_id].status)

RECURSIVE SumAmounts(_, _)
SumAmounts(rows, ids) ==
    IF ids = {} THEN 0
    ELSE LET i == CHOOSE x \in ids : TRUE IN
         rows[i].amount_cents + SumAmounts(rows, ids \ {i})

\* what the payments table says an account's balances are
AvailableByPayments(a) ==
    SeedBalance
    - SumAmounts(payments, {i \in DOMAIN payments :
          /\ payments[i].source_account_id = a
          /\ payments[i].status \in {RESERVED, COMPLETED}})
    + SumAmounts(payments, {i \in DOMAIN payments :
          /\ payments[i].destination_account_id = a
          /\ payments[i].status = COMPLETED})

ReservedByPayments(a) ==
    SumAmounts(payments, {i \in DOMAIN payments :
          /\ payments[i].source_account_id = a
          /\ payments[i].status = RESERVED})

\* C5: at most once per idempotency key - in every committed state a key has
\* at most one payment row and at most one idempotency row, and every
\* account's balances are those of debiting or reserving each payment once
C5_AtMostOncePerKey ==
    /\ \A key \in Keys :
          /\ Cardinality({i \in DOMAIN payments : payments[i].idempotency_key = key}) <= 1
          /\ Cardinality({row \in idempotency_keys : row.key = key}) <= 1
    /\ \A a \in DOMAIN accounts :
          /\ accounts[a].available_balance_cents = AvailableByPayments(a)
          /\ accounts[a].reserved_balance_cents = ReservedByPayments(a)

\* C5 witness: two transactions passed the key-absent check, one committed and
\* the other hit the unique constraint
C5_Witness ==
    \E r \in Requests :
        /\ intake[r].pc = "done"
        /\ intake[r].integrity_error
        /\ Len(payments) = 1

\* ledger rows of a payment, by direction
EntriesOf(ledger, payment_id, direction) ==
    {i \in DOMAIN ledger :
        /\ ledger[i].payment_id = payment_id
        /\ ledger[i].direction = direction}

\* worker w commits the processing transaction of its current event in this step
Delivers(w) ==
    /\ worker[w].pc = "run"
    /\ worker'[w] # worker[w]
    /\ worker'[w].pc \in {"idle", "run"}

C6_Step ==
    /\ \A p \in DOMAIN payments' :
          /\ Cardinality(EntriesOf(ledger_entries', p, DEBIT)) <= 1
          /\ Cardinality(EntriesOf(ledger_entries', p, CREDIT)) <= 1
    /\ \A w \in Workers :
          (/\ Delivers(w)
           /\ IsTerminal(payments[outbox_events[Current(w)].aggregate_id].status))
          => /\ UNCHANGED <<accounts, payments, ledger_entries, idempotency_keys>>
             /\ outbox_events' = [outbox_events EXCEPT
                    ![Current(w)] = [@ EXCEPT !.status = PROCESSED,
                                              !.next_retry_at = NullTime]]

\* C6: the worker applies a payment at most once - a payment never has more
\* than one DEBIT and one CREDIT ledger entry, and a delivery that finds the
\* payment completed or rejected only marks the event processed
C6_WorkerAtMostOnce == [][C6_Step]_vars

\* C6 witness: a payment the worker has completed, its event processed, while
\* another worker still holds the same event id for delivery
C6_Witness ==
    \E w \in Workers :
        /\ worker[w].pc = "run"
        /\ outbox_events[Current(w)].status = PROCESSED
        /\ payments[outbox_events[Current(w)].aggregate_id].status = COMPLETED
        /\ outbox_events[Current(w)].event_type \in {PAYMENT_RESERVED, PAYMENT_REQUESTED}
        /\ worker[w].mode # STRONG

StatusTransitions ==
    {<<RECEIVED, COMPLETED>>, <<RECEIVED, REJECTED>>,
     <<RESERVED, COMPLETED>>, <<RESERVED, REJECTED>>}

C7_Step ==
    \A i \in DOMAIN payments :
        /\ i \in DOMAIN payments'
        /\ \/ payments'[i].status = payments[i].status
           \/ <<payments[i].status, payments'[i].status>> \in StatusTransitions

\* C7: monotonic payment status - a payment's status changes only from
\* received or reserved to completed or rejected
C7_MonotonicStatus == [][C7_Step]_vars

\* C7 witness: the worker has completed one payment and rejected another
C7_Witness ==
    /\ \E i \in DOMAIN payments : payments[i].status = REJECTED
    /\ \E i \in DOMAIN outbox_events :
          /\ outbox_events[i].status = PROCESSED
          /\ payments[outbox_events[i].aggregate_id].status = COMPLETED

\* C8: ledger entries of a payment are all-or-nothing - a payment that is not
\* completed has no ledger entry, a completed payment has exactly one DEBIT on
\* its source and one CREDIT on its destination, both for its amount
C8_LedgerAllOrNothing ==
    /\ \A i \in DOMAIN ledger_entries : ledger_entries[i].payment_id \in DOMAIN payments
    /\ \A p \in DOMAIN payments :
          LET debits == EntriesOf(ledger_entries, p, DEBIT)
              credits == EntriesOf(ledger_entries, p, CREDIT)
          IN
          IF payments[p].status = COMPLETED
          THEN /\ Cardinality(debits) = 1
               /\ Cardinality(credits) = 1
               /\ \A i \in debits :
                     /\ ledger_entries[i].account_id = payments[p].source_account_id
                     /\ ledger_entries[i].amount_cents = payments[p].amount_cents
               /\ \A i \in credits :
                     /\ ledger_entries[i].account_id = payments[p].destination_account_id
                     /\ ledger_entries[i].amount_cents = payments[p].amount_cents
          ELSE debits = {} /\ credits = {}

\* C8 witness: a payment completed at intake and a payment rejected by the worker
C8_Witness ==
    /\ \E p \in DOMAIN payments :
          /\ payments[p].status = COMPLETED
          /\ \A i \in DOMAIN outbox_events : outbox_events[i].aggregate_id # p
    /\ \E p \in DOMAIN payments : payments[p].status = REJECTED

\* outbox events of a payment
EventsOf(events, payment_id) ==
    {i \in DOMAIN events : events[i].aggregate_id = payment_id}

C9_Step ==
    /\ \A i \in DOMAIN outbox_events :
          /\ i \in DOMAIN outbox_events'
          /\ outbox_events'[i].aggregate_id = outbox_events[i].aggregate_id
          /\ outbox_events'[i].event_type = outbox_events[i].event_type
    /\ \A i \in DOMAIN outbox_events' : outbox_events'[i].aggregate_id \in DOMAIN payments'
    /\ \A p \in DOMAIN payments' : Cardinality(EventsOf(outbox_events', p)) <= 1
    /\ \/ Len(payments') = Len(payments) /\ Len(outbox_events') = Len(outbox_events)
       \/ \E r \in Requests :
             /\ Returns(r)
             /\ intake'[r].created
             /\ Len(payments') = Len(payments) + 1
             /\ LET p == Len(payments')
                    events == EventsOf(outbox_events', p)
                IN
                CASE intake[r].mode = STRONG ->
                        /\ events = {}
                        /\ Len(outbox_events') = Len(outbox_events)
                  [] intake[r].mode = HYBRID ->
                        /\ Len(outbox_events') = Len(outbox_events) + 1
                        /\ \E i \in events :
                              /\ outbox_events'[i].event_type = PAYMENT_RESERVED
                              /\ outbox_events'[i].status = PENDING
                              /\ outbox_events'[i].attempts = 0
                  [] intake[r].mode = EVENTUAL ->
                        /\ Len(outbox_events') = Len(outbox_events) + 1
                        /\ \E i \in events :
                              /\ outbox_events'[i].event_type = PAYMENT_REQUESTED
                              /\ outbox_events'[i].status = PENDING
                              /\ outbox_events'[i].attempts = 0

\* C9: transactional outbox - the intake transaction that commits a hybrid or
\* eventual payment commits exactly one pending outbox event with attempts 0
\* for it (PAYMENT_RESERVED or PAYMENT_REQUESTED), a strong one commits none,
\* no other step adds a payment or an event, and events are never removed,
\* re-targeted or left without their payment row
C9_TransactionalOutbox == [][C9_Step]_vars

\* C9 witness: a hybrid payment with its event next to a strong payment without
C9_Witness ==
    /\ Len(payments) = 2
    /\ Len(outbox_events) = 1
    /\ outbox_events[1].event_type = PAYMENT_RESERVED
    /\ \E p \in DOMAIN payments :
          EventsOf(outbox_events, p) = {} /\ payments[p].status = COMPLETED

C10_Step ==
    \A i \in DOMAIN outbox_events :
        outbox_events[i].status \in {PROCESSED, DEAD}
        => outbox_events'[i].status = outbox_events[i].status

\* C10: terminal outbox states are permanent - an event whose status is
\* processed or dead never changes status again
C10_TerminalOutboxPermanent == [][C10_Step]_vars

\* C11: attempts stay in range - every outbox event has 0 <= attempts <= 7
\* in every reachable state
C11_AttemptsInRange ==
    \A i \in DOMAIN outbox_events :
        /\ outbox_events[i].attempts >= 0
        /\ outbox_events[i].attempts <= MaxAttempts

\* the arrows of the outbox state machine
OutboxTransitions ==
    {<<PENDING, PROCESSING>>, <<PROCESSING, PROCESSING>>, <<PROCESSING, PROCESSED>>,
     <<PROCESSING, PENDING>>, <<PROCESSING, DEAD>>}

C12_Step ==
    \A i \in DOMAIN outbox_events :
        LET old == outbox_events[i]
            new == outbox_events'[i]
        IN
        new # old =>
            /\ <<old.status, new.status>> \in OutboxTransitions
            /\ new.status = PROCESSING => new.attempts = old.attempts
            /\ new.status = PROCESSED => new.attempts = old.attempts
            /\ new.status = PENDING =>
                  new.attempts = old.attempts + 1 /\ new.attempts < MaxAttempts
            /\ new.status = DEAD =>
                  \/ new.attempts = old.attempts
                  \/ new.attempts = old.attempts + 1 /\ new.attempts = MaxAttempts

\* C12: the outbox state machine - an event row changes only by pending ->
\* processing (claim), processing -> processing (re-claim), processing ->
\* processed (success), processing -> pending (transient failure, attempts
\* below 7 after the increment) or processing -> dead (permanent failure, or
\* the seventh transient failure); nothing leaves processed or dead
C12_OutboxFsm == [][C12_Step]_vars

\* worker w holds a claim on event i: the id is in the batch it still has to
\* deliver
Holds(w, i) == \E k \in DOMAIN worker[w].event_ids : worker[w].event_ids[k] = i

\* of two workers holding the same event, one claimed it when the lease of the
\* other had run out
ExclusiveLeases ==
    \A w, v \in Workers :
        (w # v /\ \E i \in DOMAIN outbox_events : Holds(w, i) /\ Holds(v, i))
        => \/ worker[w].lease_expiration <= worker[v].lease_expiration - LeaseTtl
           \/ worker[v].lease_expiration <= worker[w].lease_expiration - LeaseTtl

C13_Step ==
    /\ \A w \in Workers :
          (worker[w].pc = "idle" /\ worker'[w].pc = "run") =>
             \A i \in DOMAIN outbox_events :
                IF Holds(w, i)'
                THEN /\ outbox_events[i].status \in {PENDING, PROCESSING}
                     /\ \/ outbox_events[i].next_retry_at = NullTime
                        \/ outbox_events[i].next_retry_at <= now
                     /\ outbox_events'[i].status = PROCESSING
                     /\ outbox_events'[i].next_retry_at = now + LeaseTtl
                ELSE outbox_events'[i] = outbox_events[i]
    /\ ExclusiveLeases'

\* C13: lease exclusivity - a batch claim returns only pending or processing
\* events whose next_retry_at is NULL or not later than now, stamps each with
\* processing and now + lease_ttl in the same step, and two workers hold the
\* same event only if the later claim was made after the earlier lease expired
C13_LeaseExclusivity == [][C13_Step]_vars

\* ids an outbox event can have
EventIds == 1 .. Cardinality(Requests)

\* the payment of event i has reached completed or rejected
PaymentTerminal(i) == IsTerminal(payments[outbox_events[i].aggregate_id].status)

\* event i is in processing and its lease has run out
LeaseExpired(i) ==
    /\ i \in DOMAIN outbox_events
    /\ outbox_events[i].status = PROCESSING
    /\ outbox_events[i].next_retry_at <= now

\* event i is processed and its payment settled
Recovered(i) ==
    /\ i \in DOMAIN outbox_events
    /\ outbox_events[i].status = PROCESSED
    /\ PaymentTerminal(i)

\* a batch claim leaves a claimable event behind only when the batch is full
\* of events that come before it
C14_Step ==
    \A w \in Workers :
        (worker[w].pc = "idle" /\ worker'[w].pc = "run") =>
           \A i \in DOMAIN outbox_events :
              (LeaseExpired(i) /\ ~Holds(w, i)') =>
                 /\ Len(worker'[w].event_ids) = FairBatchSize
                 /\ \A k \in DOMAIN worker'[w].event_ids :
                       OrderedBefore(outbox_events[worker'[w].event_ids[k]],
                                     outbox_events[i])

Settled(i) ==
    \/ outbox_events[i].status \in {PROCESSED, DEAD}
    \/ outbox_events[i].next_retry_at > MaxRetryTime

\* C16: retry progress - while deliveries may fail transiently and the worker
\* loop keeps running, the ledger stays balanced and no balance is negative,
\* an event that is not yet processed or dead has failed fewer than seven
\* times, and every event ends processed or dead
C16_RetryProgress ==
    /\ [](ledger_imbalance = 0 /\ negative_balance_count = 0)
    /\ [](\A i \in DOMAIN outbox_events :
            outbox_events[i].status \in {PENDING, PROCESSING}
            => outbox_events[i].attempts < MaxAttempts)
    /\ <>[](\A i \in DOMAIN outbox_events : Settled(i))

\* C16 witness: an event failed seven times and is dead, its payment unsettled
\* and the ledger empty
C16_Witness ==
    /\ Len(outbox_events) = 1
    /\ outbox_events[1].status = DEAD
    /\ outbox_events[1].attempts = MaxAttempts
    /\ ~PaymentTerminal(1)
    /\ ledger_entries = <<>>

\* worker w commits its failure handler in this step
Handles(w, pc) == worker[w].pc = pc /\ worker'[w].pc # pc

C17_Step ==
    \A w \in Workers :
        Handles(w, "transient") =>
           LET old == outbox_events[Current(w)]
               new == outbox_events'[Current(w)]
           IN
           /\ new.attempts = old.attempts + 1
           /\ new.attempts < MaxAttempts =>
                 new.status = PENDING /\ new.next_retry_at > now
           /\ new.attempts = MaxAttempts =>
                 new.status = DEAD /\ new.next_retry_at = NullTime

\* C17: transient failure handling - each transient failure adds exactly 1 to
\* the event's attempts; below 7 after the increment the event is pending with
\* a next_retry_at in the future, at 7 it is dead with next_retry_at NULL; an
\* event whose deliveries only ever failed transiently is dead exactly when
\* its attempts are 7
C17_TransientFailure ==
    /\ [][C17_Step]_vars
    /\ [](\A i \in DOMAIN outbox_events :
            ~PaymentTerminal(i) =>
               (outbox_events[i].status = DEAD <=> outbox_events[i].attempts = MaxAttempts))

\* the delays of the first to the sixth failure
BackoffSchedule == <<2, 4, 8, 16, 32, 64>>

C18_Step ==
    /\ \A a \in 0 .. MaxAttempts + 1 :
          /\ retry_delay_seconds(a) <= 64
          /\ a < Len(BackoffSchedule) => retry_delay_seconds(a) = BackoffSchedule[a + 1]
    /\ \A w \in Workers :
          Handles(w, "transient") =>
             LET old == outbox_events[Current(w)]
                 new == outbox_events'[Current(w)]
             IN
             new.status = PENDING =>
                new.next_retry_at = now + BackoffSchedule[old.attempts + 1]

\* C18: backoff schedule - the retry scheduled by a transient failure is
\* 2^min(a+1, 6) seconds after now, a being the attempts before the increment:
\* 2, 4, 8, 16, 32, 64 seconds for the first to the sixth failure, never more
\* than 64
C18_BackoffSchedule == [][C18_Step]_vars

\* C18 witness: the sixth failure has just scheduled its retry 64 seconds ahead
C18_Witness ==
    \E i \in DOMAIN outbox_events :
        /\ outbox_events[i].status = PENDING
        /\ outbox_events[i].attempts = 6
        /\ outbox_events[i].next_retry_at = now + 64

C19_Step ==
    \A w \in Workers :
        /\ (worker[w].pc = "run" /\ worker'[w].pc = "permanent") =>
              process_event(worker[w].mode, outbox_events[Current(w)]).raised
        /\ Handles(w, "permanent") =>
              /\ outbox_events' = [outbox_events EXCEPT
                     ![Current(w)] = [@ EXCEPT !.status = DEAD, !.next_retry_at = NullTime]]
              /\ ~Eligible(outbox_events'[Current(w)])

\* C19: permanent failures skip retry - when the strategy raises an invariant
\* violation the failure handler sets the event dead with next_retry_at NULL,
\* leaves its attempts as they are and does not schedule a retry
C19_PermanentFailure == [][C19_Step]_vars

\* C19 witness: an event that failed transiently once and then hit an
\* invariant violation is dead with attempts 1
C19_Witness ==
    \E i \in DOMAIN outbox_events :
        /\ outbox_events[i].status = DEAD
        /\ outbox_events[i].attempts = 1
        /\ outbox_events[i].next_retry_at = NullTime
        /\ \A w \in Workers : worker[w].pc = "idle"

\* the columns of an event that the failure handlers do not touch
Fixed(event) ==
    <<event.id, event.aggregate_type, event.aggregate_id, event.event_type,
      event.payload_json, event.created_at>>

C20_Step ==
    \A w \in Workers :
        /\ (worker[w].pc = "run" /\ worker'[w].pc \in {"transient", "permanent"}) =>
              UNCHANGED db
        /\ (Handles(w, "transient") \/ Handles(w, "permanent")) =>
              /\ UNCHANGED <<accounts, payments, ledger_entries, idempotency_keys>>
              /\ DOMAIN outbox_events' = DOMAIN outbox_events
              /\ \A i \in DOMAIN outbox_events :
                    IF i = Current(w)
                    THEN Fixed(outbox_events'[i]) = Fixed(outbox_events[i])
                    ELSE outbox_events'[i] = outbox_events[i]

\* C20: no partial progress in the worker - a delivery that fails leaves
\* balances, versions, payments, ledger and outbox as they were; the failure
\* handler, in its own transaction, changes only status, attempts and
\* next_retry_at of the failed event
C20_NoPartialProgress == [][C20_Step]_vars

\* C20 witness: a hybrid delivery failed and was scheduled for retry; the
\* payment is still reserved, the funds still held and the ledger empty
C20_Witness ==
    \E i \in DOMAIN outbox_events :
        LET payment == payments[outbox_events[i].aggregate_id] IN
        /\ outbox_events[i].status = PENDING
        /\ outbox_events[i].attempts = 1
        /\ payment.status = RESERVED
        /\ accounts[payment.source_account_id].reserved_balance_cents >= payment.amount_cents
        /\ EntriesOf(ledger_entries, payment.id, DEBIT) = {}
        /\ \E w \in Workers : worker[w].mode = HYBRID

\* the key of call r has a committed idempotency row with another request hash
Conflicts(r) ==
    \E row \in idempotency_keys :
        /\ row.key = intake[r].request.idempotency_key
        /\ row.request_hash # intake[r].request_hash

C21_Step ==
    \A r \in Requests :
        Returns(r) =>
           /\ (Conflicts(r) /\ intake[r].pc = "started") =>
                 /\ intake'[r].http_status = 409
                 /\ intake'[r].error_code = "IDEMPOTENCY_CONFLICT"
           /\ Conflicts(r) =>
                 /\ UNCHANGED db
                 /\ ~intake'[r].created
                 /\ intake'[r].http_status # 200
                 /\ execute_mode(intake[r].mode, intake[r].request,
                                 intake[r].request_hash).ok
                    => intake'[r].error_code = "IDEMPOTENCY_CONFLICT"
           /\ intake'[r].error_code = "IDEMPOTENCY_CONFLICT" =>
                 Conflicts(r) /\ intake'[r].http_status = 409

\* C21: idempotency conflict - a request that finds a committed idempotency
\* row of its key with another request hash fails with IDEMPOTENCY_CONFLICT
\* (409) and changes nothing: no payment, no outbox event, no balance change,
\* the stored row as it was; nothing else is answered IDEMPOTENCY_CONFLICT
C21_IdempotencyConflict == [][C21_Step]_vars

\* C21 witness: one payment was accepted and a second body under the same key
\* was refused at the lookup with 409
C21_Witness ==
    /\ Len(payments) = 1
    /\ Cardinality(idempotency_keys) = 1
    /\ \E r \in Requests :
          /\ intake[r].pc = "done"
          /\ intake[r].http_status = 409
          /\ intake[r].error_code = "IDEMPOTENCY_CONFLICT"
          /\ ~intake[r].integrity_error
    /\ \E r \in Requests : intake[r].pc = "done" /\ intake[r].created


\* call r loses the insert race in this step: its transaction fails with the
\* unique-key violation
Loses(r) == Returns(r) /\ intake'[r].integrity_error

\* the idempotency rows of the key of call r
RowsOf(r) == idempotency_get(intake[r].request.idempotency_key)

\* a row the loser can replay: same request hash, a stored response
Replayable(r, row) ==
    /\ row.request_hash = intake[r].request_hash
    /\ row.response_payload_json # <<>>

Replays(r) ==
    /\ intake'[r].http_status = 200
    /\ ~intake'[r].created
    /\ \E row \in RowsOf(r) :
          intake'[r].response = model_validate_json(row.response_payload_json)

Fails(r, http_status, error_code) ==
    /\ intake'[r].http_status = http_status
    /\ intake'[r].error_code = error_code
    /\ ~intake'[r].created
    /\ intake'[r].response = NoResponse

C22_OriginalStep ==
    \A r \in Requests :
        Loses(r) =>
           /\ UNCHANGED db
           /\ IF \E row \in RowsOf(r) : Replayable(r, row)
              THEN Replays(r)
              ELSE Fails(r, 503, "IDEMPOTENCY_UNAVAILABLE")

\* C22 as stated: the loser of an idempotency race rolls back and reads the
\* row again; a row with a matching request hash and a stored response is
\* replayed, every other case fails with IDEMPOTENCY_UNAVAILABLE (503)
C22_LoserReplaysOrUnavailable == [][C22_OriginalStep]_vars

C22_Step ==
    \A r \in Requests :
        Loses(r) =>
           /\ intake[r].pc = "checked"
           /\ IntegrityError(intake[r].request.idempotency_key)
           /\ UNCHANGED db
           /\ IF \E row \in RowsOf(r) : Replayable(r, row)
              THEN Replays(r)
              ELSE IF \E row \in RowsOf(r) : row.request_hash # intake[r].request_hash
              THEN Fails(r, 409, "IDEMPOTENCY_CONFLICT")
              ELSE Fails(r, 503, "IDEMPOTENCY_UNAVAILABLE")

\* C22 amended: the loser of an idempotency race rolls back all its mutations
\* and reads the row again; a row with a matching request hash and a stored
\* response is replayed, a row with another request hash fails with
\* IDEMPOTENCY_CONFLICT (409), every other case fails with
\* IDEMPOTENCY_UNAVAILABLE (503)
C22_LoserOutcome == [][C22_Step]_vars

\* C22 witness: two calls with the same key and body both passed the lookup,
\* one committed the payment and the other was answered with its response
C22_Witness ==
    /\ Len(payments) = 1
    /\ \E r, q \in Requests :
          /\ intake[q].pc = "done" /\ intake[q].created
          /\ intake[r].pc = "done" /\ intake[r].integrity_error
          /\ intake[r].http_status = 200
          /\ ~intake[r].created
          /\ intake[r].response = intake[q].response


\* the source account of call r cannot cover the amount
Uncovered(r) ==
    accounts[intake[r].request.source_account_id].available_balance_cents
        < intake[r].request.amount_cents

C23_Step ==
    \A r \in DOMAIN intake :
        /\ (/\ Returns(r)
            /\ intake[r].pc = "checked"
            /\ intake[r].mode \in {STRONG, HYBRID}
            /\ Uncovered(r))
           => /\ Fails(r, 422, "INSUFFICIENT_FUNDS")
              /\ UNCHANGED db
        /\ (Returns(r) /\ intake'[r].error_code = "INSUFFICIENT_FUNDS")
           => /\ intake[r].pc = "checked"
              /\ intake[r].mode \in {STRONG, HYBRID}
              /\ Uncovered(r)
        /\ (/\ intake[r].pc = "started"
            /\ intake'[r] # intake[r]
            /\ RowsOf(r) = {})
           => intake'[r] = [intake[r] EXCEPT !.pc = "checked"]

\* C23: insufficient funds at intake - in strong and hybrid mode a request
\* whose source has available < amount fails with INSUFFICIENT_FUNDS and
\* leaves every table as it was (no payment, idempotency row, outbox event or
\* ledger entry, balances and versions untouched); INSUFFICIENT_FUNDS is
\* answered in no other case; a request that finds no idempotency row of its
\* key goes on to the mode strategy, so a later request with the key of the
\* failed one is evaluated afresh
C23_InsufficientFunds == [][C23_Step]_vars

\* C23 witness: the first call was refused for lack of funds, nothing is
\* stored under its key, and a later call with that key is about to look it up
C23_Witness ==
    /\ intake[1].pc = "done"
    /\ intake[1].error_code = "INSUFFICIENT_FUNDS"
    /\ idempotency_get("idem-key-1") = {}
    /\ \A i \in DOMAIN payments : payments[i].idempotency_key # "idem-key-1"
    /\ intake[3].pc = "started"
    /\ intake[3].request.idempotency_key = "idem-key-1"
    /\ ~Uncovered(3)


\* call r, configured with mode, commits its payment in this step
Accepts(r, mode) == Returns(r) /\ intake'[r].created /\ intake[r].mode = mode

\* the payment row that call r inserts, with the given status
NewPayment(r, status) ==
    [id |-> Len(payments) + 1,
     idempotency_key |-> intake[r].request.idempotency_key,
     request_hash |-> intake[r].request_hash,
     source_account_id |-> intake[r].request.source_account_id,
     destination_account_id |-> intake[r].request.destination_account_id,
     amount_cents |-> intake[r].request.amount_cents,
     method |-> "pix",
     status |-> status]

\* call r is answered 200 with the id of its new payment and the given status
Responds(r, status) ==
    /\ intake'[r].http_status = 200
    /\ intake'[r].error_code = NULL
    /\ intake'[r].response = [payment_id |-> Len(payments) + 1, status |-> status]

\* the DEBIT and CREDIT rows of a transfer
DebitCredit(payment_id, src, dst, amt) ==
    <<[payment_id |-> payment_id, account_id |-> src,
       direction |-> DEBIT, amount_cents |-> amt],
      [payment_id |-> payment_id, account_id |-> dst,
       direction |-> CREDIT, amount_cents |-> amt]>>

C24_Step ==
    \A r \in DOMAIN intake :
        /\ Accepts(r, STRONG) =>
              LET src == intake[r].request.source_account_id
                  dst == intake[r].request.destination_account_id
                  amt == intake[r].request.amount_cents
              IN
              /\ accounts'[src] = [accounts[src] EXCEPT
                     !.available_balance_cents = @ - amt, !.version = @ + 1]
              /\ accounts'[dst] = [accounts[dst] EXCEPT
                     !.available_balance_cents = @ + amt, !.version = @ + 1]
              /\ \A a \in DOMAIN accounts \ {src, dst} : accounts'[a] = accounts[a]
              /\ payments' = Append(payments, NewPayment(r, COMPLETED))
              /\ ledger_entries' =
                     ledger_entries \o DebitCredit(Len(payments) + 1, src, dst, amt)
              /\ outbox_events' = outbox_events
              /\ Responds(r, COMPLETED)
        /\ (/\ Returns(r)
            /\ intake[r].pc = "checked"
            /\ intake[r].mode = STRONG
            /\ ~Uncovered(r)
            /\ ~IntegrityError(intake[r].request.idempotency_key))
           => intake'[r].created

\* C24: strong intake - a strong-mode request that passes the funds check and
\* the unique constraints is accepted, and in one step source.available
\* decreases by the amount, destination.available increases by it, both
\* versions go up by 1, no other account changes, the payment is inserted
\* completed, one DEBIT and one CREDIT entry of the amount are appended, no
\* outbox event is created and the response says completed
C24_StrongIntake == [][C24_Step]_vars

\* C24 witness: one strong transfer has been accepted
C24_Witness ==
    /\ Len(payments) = 1
    /\ payments[1].status = COMPLETED
    /\ Len(ledger_entries) = 2
    /\ outbox_events = <<>>
    /\ accounts[payments[1].source_account_id] =
          [available_balance_cents |-> SeedBalance - payments[1].amount_cents,
           reserved_balance_cents |-> 0, version |-> 1]
    /\ accounts[payments[1].destination_account_id] =
          [available_balance_cents |-> SeedBalance + payments[1].amount_cents,
           reserved_balance_cents |-> 0, version |-> 1]
    /\ \E r \in DOMAIN intake :
          intake[r].created /\ intake[r].response = [payment_id |-> 1, status |-> COMPLETED]


\* the outbox row that call r inserts for its new payment
NewEvent(r, event_type) ==
    [id |-> Len(outbox_events) + 1,
     aggregate_type |-> "payment",
     aggregate_id |-> Len(payments) + 1,
     event_type |-> event_type,
     payload_json |-> [payment_id |-> Len(payments) + 1,
                       source_account_id |-> intake[r].request.source_account_id,
                       destination_account_id |-> intake[r].request.destination_account_id,
                       amount_cents |-> intake[r].request.amount_cents,
                       traceparent |-> NULL],
     status |-> PENDING,
     attempts |-> 0,
     next_retry_at |-> NullTime,
     created_at |-> now]

C25_Step ==
    \A r \in DOMAIN intake :
        /\ Accepts(r, HYBRID) =>
              LET src == intake[r].request.source_account_id
                  amt == intake[r].request.amount_cents
              IN
              /\ accounts'[src] = [accounts[src] EXCEPT
                     !.available_balance_cents = @ - amt,
                     !.reserved_balance_cents = @ + amt,
                     !.version = @ + 1]
              /\ \A a \in DOMAIN accounts \ {src} : accounts'[a] = accounts[a]
              /\ ledger_entries' = ledger_entries
              /\ payments' = Append(payments, NewPayment(r, RESERVED))
              /\ outbox_events' = Append(outbox_events, NewEvent(r, PAYMENT_RESERVED))
              /\ Responds(r, RESERVED)
        /\ (/\ Returns(r)
            /\ intake[r].pc = "checked"
            /\ intake[r].mode = HYBRID
            /\ ~Uncovered(r)
            /\ ~IntegrityError(intake[r].request.idempotency_key))
           => intake'[r].created

\* C25: hybrid intake - a hybrid-mode request that passes the funds check and
\* the unique constraints is accepted, and in one step the amount moves from
\* source.available to source.reserved, only the source's version goes up,
\* the destination and every other account stay as they were, no ledger entry
\* is appended, the payment is inserted reserved with one pending
\* PAYMENT_RESERVED event with attempts 0, and the response says reserved
C25_HybridIntake == [][C25_Step]_vars

\* C25 witness: one hybrid reservation has been accepted and not yet delivered
C25_Witness ==
    /\ Len(payments) = 1
    /\ payments[1].status = RESERVED
    /\ ledger_entries = <<>>
    /\ Len(outbox_events) = 1
    /\ outbox_events[1].event_type = PAYMENT_RESERVED
    /\ outbox_events[1].status = PENDING
    /\ outbox_events[1].attempts = 0
    /\ accounts[payments[1].source_account_id] =
          [available_balance_cents |-> SeedBalance - payments[1].amount_cents,
           reserved_balance_cents |-> payments[1].amount_cents, version |-> 1]
    /\ accounts[payments[1].destination_account_id] =
          [available_balance_cents |-> SeedBalance,
           reserved_balance_cents |-> 0, version |-> 0]
    /\ \E r \in DOMAIN intake :
          intake[r].created /\ intake[r].response = [payment_id |-> 1, status |-> RESERVED]

C26_Step ==
    \A r \in DOMAIN intake :
        /\ Accepts(r, EVENTUAL) =>
              /\ accounts' = accounts
              /\ ledger_entries' = ledger_entries
              /\ payments' = Append(payments, NewPayment(r, RECEIVED))
              /\ outbox_events' = Append(outbox_events, NewEvent(r, PAYMENT_REQUESTED))
              /\ Responds(r, RECEIVED)
        /\ (/\ Returns(r)
            /\ intake[r].pc = "checked"
            /\ intake[r].mode = EVENTUAL)
           => /\ intake'[r].error_code # "INSUFFICIENT_FUNDS"
              /\ ~IntegrityError(intake[r].request.idempotency_key) => intake'[r].created

\* C26: eventual intake - an eventual-mode request is accepted whatever the
\* accounts hold (it is never answered INSUFFICIENT_FUNDS and only a unique
\* constraint can stop it); the step leaves every account's balances and
\* version and the ledger unchanged, inserts the payment received with one
\* pending PAYMENT_REQUESTED event, and the response says received
C26_EventualIntake == [][C26_Step]_vars

\* C26 witness: an eventual request for more than its source holds has been
\* accepted
C26_Witness ==
    \E i \in DOMAIN payments :
        /\ payments[i].status = RECEIVED
        /\ accounts[payments[i].source_account_id].available_balance_cents
              < payments[i].amount_cents
        /\ \E e \in DOMAIN outbox_events :
              /\ outbox_events[e].aggregate_id = i
              /\ outbox_events[e].event_type = PAYMENT_REQUESTED
              /\ outbox_events[e].status = PENDING
        /\ \E r \in DOMAIN intake :
              intake[r].created /\ intake[r].response = [payment_id |-> i, status |-> RECEIVED]


\* a worker configured with mode commits the delivery of an event of the
\* given type in this step
DeliversIn(w, mode, event_type) ==
    /\ Delivers(w)
    /\ worker[w].mode = mode
    /\ Current(w) \in DOMAIN outbox_events
    /\ outbox_events[Current(w)].event_type = event_type

\* the delivery of worker w marks its event processed and touches no other event
MarksProcessed(w) ==
    outbox_events' = [outbox_events EXCEPT
        ![Current(w)] = [@ EXCEPT !.status = PROCESSED, !.next_retry_at = NullTime]]

\* the delivery of worker w moves the amount to the destination and completes
\* the payment
Completes(w) ==
    LET payload == outbox_events[Current(w)].payload_json IN
    /\ payments' = [payments EXCEPT ![payload.payment_id].status = COMPLETED]
    /\ ledger_entries' =
          ledger_entries \o DebitCredit(payload.payment_id, payload.source_account_id,
                                        payload.destination_account_id,
                                        payload.amount_cents)
    /\ MarksProcessed(w)
    /\ idempotency_keys' = idempotency_keys
    /\ \A a \in DOMAIN accounts \ {payload.source_account_id,
                                   payload.destination_account_id} :
          accounts'[a] = accounts[a]
    /\ accounts'[payload.destination_account_id] =
          [accounts[payload.destination_account_id] EXCEPT
              !.available_balance_cents = @ + payload.amount_cents,
              !.version = @ + 1]

C27_Step ==
    \A w \in Workers :
        (/\ DeliversIn(w, HYBRID, PAYMENT_RESERVED)
         /\ ~PaymentTerminal(Current(w))) =>
           LET payload == outbox_events[Current(w)].payload_json
               src == payload.source_account_id
           IN
           /\ accounts[src].reserved_balance_cents >= payload.amount_cents
           /\ accounts'[src] = [accounts[src] EXCEPT
                  !.reserved_balance_cents = @ - payload.amount_cents,
                  !.version = @ + 1]
           /\ Completes(w)

\* C27: hybrid finalization - when the hybrid worker commits the delivery of a
\* PAYMENT_RESERVED event whose payment is not terminal, the source holds at
\* least the amount in reserved, and the one step decreases source.reserved by
\* the amount, increases destination.available by it, raises both versions by
\* 1, sets the payment completed, appends the DEBIT and CREDIT entries and
\* marks the event processed; source.available and everything else stay as
\* they were
C27_HybridFinalization == [][C27_Step]_vars

\* C27 witness: the hybrid worker has finalized a reservation
C27_Witness ==
    /\ \A w \in Workers : worker[w].mode = HYBRID /\ worker[w].pc = "idle"
    /\ Len(payments) = 1
    /\ payments[1].status = COMPLETED
    /\ Len(outbox_events) = 1
    /\ outbox_events[1].event_type = PAYMENT_RESERVED
    /\ outbox_events[1].status = PROCESSED
    /\ Len(ledger_entries) = 2
    /\ accounts[payments[1].source_account_id] =
          [available_balance_cents |-> SeedBalance - payments[1].amount_cents,
           reserved_balance_cents |-> 0, version |-> 2]
    /\ accounts[payments[1].destination_account_id] =
          [available_balance_cents |-> SeedBalance + payments[1].amount_cents,
           reserved_balance_cents |-> 0, version |-> 1]

C28_Step ==
    \A w \in Workers :
        (/\ DeliversIn(w, EVENTUAL, PAYMENT_REQUESTED)
         /\ ~PaymentTerminal(Current(w))) =>
           LET payload == outbox_events[Current(w)].payload_json
               src == payload.source_account_id
           IN
           IF accounts[src].available_balance_cents < payload.amount_cents
           THEN /\ payments' = [payments EXCEPT ![payload.payment_id].status = REJECTED]
                /\ MarksProcessed(w)
                /\ UNCHANGED <<accounts, ledger_entries, idempotency_keys>>
           ELSE /\ accounts'[src] = [accounts[src] EXCEPT
                       !.available_balance_cents = @ - payload.amount_cents,
                       !.version = @ + 1]
                /\ Completes(w)

\* C28: eventual settlement - when the eventual worker commits the delivery of
\* a PAYMENT_REQUESTED event whose payment is not terminal, then if
\* source.available < amount the payment becomes rejected and the event
\* processed with all balances, versions and the ledger unchanged; otherwise
\* source.available decreases by the amount, destination.available increases
\* by it, both versions go up by 1, the payment becomes completed, the
\* DEBIT/CREDIT pair is appended and the event is marked processed
C28_EventualSettlement == [][C28_Step]_vars

\* C28 witness: the eventual worker has settled one request and rejected
\* another for lack of funds
C28_Witness ==
    /\ \A w \in Workers : worker[w].mode = EVENTUAL
    /\ Len(payments) = 2
    /\ Len(outbox_events) = 2
    /\ \A i \in DOMAIN outbox_events :
          /\ outbox_events[i].event_type = PAYMENT_REQUESTED
          /\ outbox_events[i].status = PROCESSED
    /\ \E p, q \in DOMAIN payments :
          /\ payments[p].status = COMPLETED
          /\ payments[q].status = REJECTED
          /\ accounts[payments[q].source_account_id].available_balance_cents
                < payments[q].amount_cents
          /\ accounts[payments[q].source_account_id].version = 1
    /\ Len(ledger_entries) = 2

C29_Step ==
    \A w \in Workers :
        worker[w].mode = STRONG =>
           /\ worker'[w].pc # "permanent"
           /\ Delivers(w) =>
                 /\ Current(w) \in DOMAIN outbox_events
                 /\ MarksProcessed(w)
                 /\ UNCHANGED <<accounts, payments, ledger_entries, idempotency_keys>>

\* C29: the strong worker strategy is a sink - a worker configured in strong
\* mode that commits a delivery marks the event processed whatever its event
\* type, never raises an invariant violation, and leaves the payment's status,
\* all balances and versions and the ledger unchanged
C29_StrongWorkerSink == [][C29_Step]_vars

\* C29 witness: a strong worker has marked a PAYMENT_RESERVED and a
\* PAYMENT_REQUESTED event processed; the payments are still reserved and
\* received, the reservation still held
C29_Witness ==
    /\ \A w \in Workers : worker[w].mode = STRONG
    /\ Len(outbox_events) = 2
    /\ \A i \in DOMAIN outbox_events : outbox_events[i].status = PROCESSED
    /\ \E i, j \in DOMAIN outbox_events :
          /\ outbox_events[i].event_type = PAYMENT_RESERVED
          /\ payments[outbox_events[i].aggregate_id].status = RESERVED
          /\ accounts[payments[outbox_events[i].aggregate_id].source_account_id]
                .reserved_balance_cents > 0
          /\ outbox_events[j].event_type = PAYMENT_REQUESTED
          /\ payments[outbox_events[j].aggregate_id].status = RECEIVED
    /\ ledger_entries = <<>>


\* the calls rs and the workers ws each wait for a lock held by another of them
Deadlocked(rs, ws) ==
    /\ rs # {} \/ ws # {}
    /\ \A r \in rs : Meets(IntakeWants(r), HeldBy(rs \ {r}, ws))
    /\ \A w \in ws : Meets(WorkerWants(w), HeldBy(rs, ws \ {w}))

NoDeadlock ==
    \A rs \in SUBSET DOMAIN intake, ws \in SUBSET Workers : ~Deadlocked(rs, ws)

\* account locks are asked for in ascending id order, the lower id of the
\* pair first
Ascending(held, wants, source_id, destination_id) ==
    /\ held \cup wants \subseteq {source_id, destination_id}
    /\ \A a \in held, b \in wants : AccountRank[a] < AccountRank[b]
    /\ \A b \in wants :
          held = {} =>
             /\ AccountRank[b] <= AccountRank[source_id]
             /\ AccountRank[b] <= AccountRank[destination_id]

LockOrder ==
    /\ \A r \in DOMAIN intake :
          (IntakeHeld(r).accounts # {} \/ IntakeWants(r).accounts # {}) =>
             /\ IntakeLocksAccounts(r)
             /\ Ascending(IntakeHeld(r).accounts, IntakeWants(r).accounts,
                          intake[r].request.source_account_id,
                          intake[r].request.destination_account_id)
    /\ \A w \in Workers :
          /\ WorkerWants(w).payments # {} =>
                WorkerHeld(w).events # {} /\ WorkerHeld(w).accounts = {}
          /\ (WorkerHeld(w).accounts # {} \/ WorkerWants(w).accounts # {}) =>
                /\ worker[w].mode \in {HYBRID, EVENTUAL}
                /\ WorkerHeld(w).events # {}
                /\ WorkerHeld(w).payments # {}
                /\ Ascending(WorkerHeld(w).accounts, WorkerWants(w).accounts,
                             WorkerPayload(w).source_account_id,
                             WorkerPayload(w).destination_account_id)

\* a transaction is open
OpenTransactions ==
    \/ \E r \in DOMAIN intake :
          intake[r].pc \in {"checked", "locked_first", "locked_both", "inserted"}
    \/ \E w \in Workers : worker[w].pc \in {"run"} \cup LockedPcs

\* a statement of some open transaction returns
TransactionStep ==
    \/ \E r \in Requests :
          \/ LockIntakeAccount(r)
          \/ LockIntakeRaise(r)
          \/ LockIntakeFlush(r)
          \/ LockIntakeCommit(r)
    \/ \E w \in Workers :
          \/ LockEvent(w)
          \/ LockPayment(w)
          \/ LockWorkerAccount(w)
          \/ LockProcess(w)

\* C30: deadlock freedom by lock ordering - every transaction that locks
\* accounts asks for the two account rows in ascending id order (intake in
\* strong and hybrid mode, the worker in hybrid and eventual mode), the worker
\* locks the event row, then the payment row, then the accounts; no set of
\* open intake and worker transactions, symmetric transfers included, is ever
\* such that each waits for a lock held by another, and while a transaction is
\* open some statement can return
C30_DeadlockFreedom ==
    /\ []LockOrder
    /\ []NoDeadlock
    /\ [](OpenTransactions => ENABLED TransactionStep)

\* C30 witness: of two symmetric transfers in flight the first holds an
\* account row that the second is waiting for
C30_Witness ==
    /\ intake[1].pc \in {"locked_first", "locked_both"}
    /\ intake[2].pc = "checked"
    /\ intake[1].request.source_account_id = intake[2].request.destination_account_id
    /\ intake[1].request.destination_account_id = intake[2].request.source_account_id
    /\ IntakeBlocked(2)


\* ------------------------------------------------ the reconciliation pass
\* ReconciliationService.run_once: both scans in one read-only transaction
run_once_debits_only ==
    [imbalance |-> SumAmounts(ledger_entries,
                      {i \in DOMAIN ledger_entries : ledger_entries[i].direction = DEBIT}),
     negative_count |-> negative_balance_count]

run_once ==
    [imbalance |-> ledger_imbalance, negative_count |-> negative_balance_count]

\* run_loop: after a poll, once the interval has passed, run the pass and
\* note the time
Reconcile(w) ==
    /\ worker[w].pc = "idle"
    /\ now - worker[w].last_reconciliation >= ReconciliationInterval
    /\ worker' = [worker EXCEPT ![w].reconciliation = run_once,
                                ![w].last_reconciliation = now]
    /\ UNCHANGED <<db, now, intake>>

ReconciliationTimes ==
    {worker[w].last_reconciliation + ReconciliationInterval : w \in Workers}

\* time passes until the next lease, retry timer or reconciliation interval
\* runs out
ReconcileTick ==
    /\ \E t \in Deadlines \cup ReconciliationTimes :
          /\ t > now
          /\ t <= MaxReconcileTime
          /\ \A u \in Deadlines \cup ReconciliationTimes : u > now => t <= u
          /\ now' = t
    /\ UNCHANGED <<db, intake, worker>>

ReconcileNext ==
    \/ \E r \in Requests : FairSubmit(r)
    \/ \E r \in Requests : IntakeBegin(r)
    \/ \E r \in Requests : IntakeCommit(r)
    \/ \E w \in Workers : FairAcquire(w)
    \/ \E w \in Workers : Process(w)
    \/ \E w \in Workers : ProcessException(w)
    \/ \E w \in Workers : HandleTransientFailure(w)
    \/ \E w \in Workers : Reconcile(w)
    \/ ReconcileTick

ReconcileSpec == Init /\ [][ReconcileNext]_vars

\* a worker's loop has run the reconciliation pass in this step
Reconciles(w) == worker'[w].last_reconciliation # worker[w].last_reconciliation

C31_Step ==
    /\ run_once' = [imbalance |-> 0, negative_count |-> 0]
    /\ \A w \in Workers :
           Reconciles(w) =>
               /\ accounts' = accounts
               /\ payments' = payments
               /\ outbox_events' = outbox_events
               /\ ledger_entries' = ledger_entries
               /\ worker'[w].reconciliation.imbalance =
                     SumAmounts(ledger_entries,
                         {i \in DOMAIN ledger_entries : ledger_entries[i].direction = DEBIT})
                     - SumAmounts(ledger_entries,
                         {i \in DOMAIN ledger_entries : ledger_entries[i].direction = CREDIT})
               /\ worker'[w].reconciliation.negative_count =
                     Cardinality({a \in DOMAIN accounts :
                         \/ accounts[a].available_balance_cents < 0
                         \/ accounts[a].reserved_balance_cents < 0})
               /\ worker'[w].reconciliation.imbalance = 0
               /\ worker'[w].reconciliation.negative_count = 0

\* C31: reconciliation is read-only and exact - run_once changes no account,
\* payment, outbox or ledger row, returns the DEBIT amounts minus the CREDIT
\* amounts of all ledger entries and the number of accounts with a negative
\* available or reserved balance, and both values are 0 in every state that
\* intake and the workers reach
C31_ReconciliationExact == [][C31_Step]_vars

\* C31 witness: a pass has returned in a deployment where a worker moved the
\* funds of one payment and rejected another for lack of funds
C31_Witness ==
    /\ \E w \in Workers : worker[w].reconciliation = [imbalance |-> 0, negative_count |-> 0]
    /\ Len(ledger_entries) >= 2
    /\ \E i \in DOMAIN payments : payments[i].status = REJECTED


\* no outbox event is pending, processing or dead
Drained ==
    \A i \in DOMAIN outbox_events :
        outbox_events[i].status \notin {PENDING, PROCESSING, DEAD}

\* the calls that intake answered with a new payment
Accepted == {r \in DOMAIN intake : intake[r].created}

PaymentsIn(status) == {p \in DOMAIN payments : payments[p].status = status}

\* evaluate_scenario: completed + rejected == requests, once the outbox is drained
RequestAccounting ==
    Drained =>
        /\ \A p \in DOMAIN payments : payments[p].status \in {COMPLETED, REJECTED}
        /\ Cardinality(PaymentsIn(COMPLETED)) + Cardinality(PaymentsIn(REJECTED))
              = Cardinality(Accepted)

C32_Step ==
    \A i \in DOMAIN outbox_events :
        /\ outbox_events[i].status # PROCESSED
        /\ outbox_events'[i].status = PROCESSED
        => /\ outbox_events[i].aggregate_id \in DOMAIN payments'
           /\ payments'[outbox_events[i].aggregate_id].status \in {COMPLETED, REJECTED}

\* C32: request accounting after drain - with worker mode equal to intake
\* mode, whenever no outbox event is pending, processing or dead, every
\* accepted payment is completed or rejected and completed + rejected equals
\* the number of accepted requests; an event is marked processed only in a
\* state where its payment is terminal
C32_RequestAccounting ==
    /\ []RequestAccounting
    /\ [][C32_Step]_vars

\* C32 witness: the outbox is drained after two accepted requests, one
\* completed and one rejected by the worker, one delivery having failed first
C32_Witness ==
    /\ Drained
    /\ Cardinality(Accepted) = 2
    /\ PaymentsIn(COMPLETED) # {}
    /\ PaymentsIn(REJECTED) # {}
    /\ \E i \in DOMAIN outbox_events : outbox_events[i].attempts >= 1


\* --------------------------------------------------- the failure injector
\* probabilities in hundredths: db_delay, worker_exception, redis_failure
PRESETS ==
    [none  |-> [db_delay_probability |-> 0, worker_exception_probability |-> 0,
                redis_failure_probability |-> 0],
     mild  |-> [db_delay_probability |-> 2, worker_exception_probability |-> 1,
                redis_failure_probability |-> 0],
     harsh |-> [db_delay_probability |-> 10, worker_exception_probability |-> 5,
                redis_failure_probability |-> 5]]

Profiles == DOMAIN PRESETS
Seeds == {42}
Namespaces == {"db_delay", "worker_exception", "redis_failure"}
InjectorEvents == {1, 2}
InjectorAttempts == {1, 2}

FailureInjector(profile, seed) ==
    [profile |-> profile, seed |-> seed, preset |-> PRESETS[profile]]

\* the digest of "seed:profile:namespace:event_id:attempt" scaled to
\* hundredths; a small mixing function stands for SHA-256
ScoreRange == 100

CodeOf(text) ==
    CASE text = "none" -> 0 [] text = "mild" -> 1 [] text = "harsh" -> 2
      [] text = "db_delay" -> 0 [] text = "worker_exception" -> 1
      [] text = "redis_failure" -> 2

score(self, namespace, event_id, attempt) ==
    (self.seed * 13 + CodeOf(self.profile) * 19 + CodeOf(namespace) * 41
        + event_id * 53 + attempt * 83) % ScoreRange

\* a comparison that lets a score of exactly the probability through
Below_inclusive(value, probability) == value <= probability

Below(value, probability) == value < probability

maybe_apply_db_delay(self, event_id, attempt) ==
    Below(score(self, "db_delay", event_id, attempt), self.preset.db_delay_probability)

should_raise_worker_exception(self, event_id, attempt) ==
    Below(score(self, "worker_exception", event_id, attempt),
          self.preset.worker_exception_probability)

should_fail_redis_simulation(self, event_id, attempt) ==
    Below(score(self, "redis_failure", event_id, attempt),
          self.preset.redis_failure_probability)

Decision(namespace, event_id, attempt, decision) ==
    [namespace |-> namespace, event_id |-> event_id, attempt |-> attempt,
     decision |-> decision]

\* two worker processes, each built with a profile and a seed, no payment yet
InjectorInit ==
    /\ accounts = [a \in SEED_ACCOUNTS |->
                     [available_balance_cents |-> SeedBalance,
                      reserved_balance_cents |-> 0,
                      version |-> 0]]
    /\ payments = <<>>
    /\ idempotency_keys = {}
    /\ outbox_events = <<>>
    /\ ledger_entries = <<>>
    /\ now = 0
    /\ intake = <<>>
    /\ \E profile \in [Workers -> Profiles], seed \in [Workers -> Seeds] :
          worker = [w \in Workers |->
                      [failure_injector |-> FailureInjector(profile[w], seed[w]),
                       decisions |-> {}]]

RECURSIVE Sum(_, _)
Sum(f, S) ==
    IF S = {} THEN 0
    ELSE LET x == CHOOSE y \in S : TRUE IN f[x] + Sum(f, S \ {x})

Asked == Sum([w \in Workers |-> Cardinality(worker[w].decisions)], Workers)

\* one question to the injector of worker w; what it answered is noted
Asks(w, namespace, event_id, attempt, decision) ==
    /\ \/ Asked < MaxQueries
       \/ \E d \in worker[w].decisions :
             /\ d.namespace = namespace
             /\ d.event_id = event_id
             /\ d.attempt = attempt
    /\ worker' = [worker EXCEPT ![w].decisions =
                     @ \cup {Decision(namespace, event_id, attempt, decision)}]
    /\ UNCHANGED <<db, now, intake>>

DbDelay(w) ==
    \E event_id \in InjectorEvents, attempt \in InjectorAttempts :
        Asks(w, "db_delay", event_id, attempt,
             maybe_apply_db_delay(worker[w].failure_injector, event_id, attempt))

WorkerException(w) ==
    \E event_id \in InjectorEvents, attempt \in InjectorAttempts :
        Asks(w, "worker_exception", event_id, attempt,
             should_raise_worker_exception(worker[w].failure_injector, event_id, attempt))

RedisFailure(w) ==
    \E event_id \in InjectorEvents, attempt \in InjectorAttempts :
        Asks(w, "redis_failure", event_id, attempt,
             should_fail_redis_simulation(worker[w].failure_injector, event_id, attempt))

InjectorNext ==
    \/ \E w \in Workers : DbDelay(w)
    \/ \E w \in Workers : WorkerException(w)
    \/ \E w \in Workers : RedisFailure(w)

InjectorSpec == InjectorInit /\ [][InjectorNext]_vars

\* the two decisions were asked of injectors with one profile and seed, for
\* one namespace, event and attempt
SameQuestion(v, w, d, e) ==
    /\ worker[v].failure_injector.seed = worker[w].failure_injector.seed
    /\ worker[v].failure_injector.profile = worker[w].failure_injector.profile
    /\ d.namespace = e.namespace
    /\ d.event_id = e.event_id
    /\ d.attempt = e.attempt

Claims(w) == worker[w].pc = "idle" /\ worker'[w].pc = "run"

\* the event row is locked by a transaction of another worker
LockedByOther(w, i) == \E v \in Workers \ {w} : i \in WorkerHeld(v).events

\* e comes strictly first in (created_at, id) order
StrictlyBefore(e, f) ==
    \/ e.created_at < f.created_at
    \/ e.created_at = f.created_at /\ e.id < f.id

C34_Step ==
    \A w \in Workers :
        Claims(w) =>
            LET batch == worker'[w].event_ids IN
            /\ Len(batch) <= FairBatchSize
            /\ \A k \in DOMAIN batch :
                  /\ batch[k] \in DOMAIN outbox_events
                  /\ Eligible(outbox_events[batch[k]])
                  /\ ~LockedByOther(w, batch[k])
            /\ \A k \in DOMAIN batch, l \in DOMAIN batch :
                  k < l => StrictlyBefore(outbox_events[batch[k]], outbox_events[batch[l]])
            /\ \A i \in DOMAIN outbox_events :
                  (/\ Eligible(outbox_events[i])
                   /\ ~LockedByOther(w, i)
                   /\ i \notin SeqToSet(batch))
                  => /\ Len(batch) = FairBatchSize
                     /\ \A k \in DOMAIN batch :
                           StrictlyBefore(outbox_events[batch[k]], outbox_events[i])

\* C34: batch acquisition order and size - fetch_batch_for_processing returns
\* at most batch_size events and they are the first eligible events in
\* ascending (created_at, id) order: an eligible event that no other
\* transaction has locked is left out only when the batch is full of events
\* that come before it
C34_BatchOrder == [][C34_Step]_vars

\* C34 witness: a worker's batch holds the second event while the first one,
\* its lease run out, is still locked by the transaction of the other worker
C34_Witness ==
    \E w \in Workers :
        /\ worker[w].pc = "run"
        /\ worker[w].event_ids = <<2>>
        /\ outbox_events[1].status = PROCESSING
        /\ outbox_events[1].next_retry_at <= now
        /\ LockedByOther(w, 1)


\* the ledger entries of one direction on one account
EntriesOn(a, direction) ==
    {i \in DOMAIN ledger_entries :
        /\ ledger_entries[i].account_id = a
        /\ ledger_entries[i].direction = direction}

\* C35: no lost updates between accounts and ledger - in every committed
\* state, for every account, available + reserved equals the seeded balance
\* plus the CREDIT entries on the account minus the DEBIT entries on it
C35_NoLostUpdates ==
    \A a \in DOMAIN accounts :
        accounts[a].available_balance_cents + accounts[a].reserved_balance_cents
            = SeedBalance + SumAmounts(ledger_entries, EntriesOn(a, CREDIT))
                          - SumAmounts(ledger_entries, EntriesOn(a, DEBIT))

\* C35 witness: an account that a worker credited when it finalized one
\* payment holds the reservation of another payment made at intake
C35_Witness ==
    \E a \in DOMAIN accounts :
        /\ EntriesOn(a, CREDIT) # {}
        /\ accounts[a].reserved_balance_cents > 0
        /\ \E i \in DOMAIN outbox_events :
              /\ outbox_events[i].status = PROCESSED
              /\ outbox_events[i].payload_json.destination_account_id = a
              /\ payments[outbox_events[i].aggregate_id].status = COMPLETED


\* intake and both workers run in hybrid mode
HybridDeployment ==
    /\ \A w \in Workers : worker[w].mode = HYBRID
    /\ \A r \in DOMAIN intake : intake[r].mode \in {NULL, HYBRID}

\* the delivery that worker w is about to make fails for lack of reserved funds
ReservedBelowAmount(w) ==
    /\ worker[w].pc = "run"
    /\ Current(w) \in DOMAIN outbox_events
    /\ LET result == process_event(worker[w].mode, outbox_events[Current(w)]) IN
       /\ result.raised
       /\ result.message = "reserved funds below amount"

\* C36: reserved funds match reserved payments - with intake and worker both
\* in hybrid mode, in every committed state each account's reserved balance
\* is the sum of the amounts of the reserved payments it is the source of, and
\* no delivery fails with 'reserved funds below amount'
C36_ReservedMatchesPayments ==
    HybridDeployment =>
        /\ \A a \in DOMAIN accounts :
              accounts[a].reserved_balance_cents =
                  SumAmounts(payments, {p \in DOMAIN payments :
                      /\ payments[p].source_account_id = a
                      /\ payments[p].status = RESERVED})
        /\ \A i \in DOMAIN outbox_events :
              payments[outbox_events[i].aggregate_id].status = RESERVED =>
                  accounts[payments[outbox_events[i].aggregate_id].source_account_id]
                      .reserved_balance_cents
                  >= payments[outbox_events[i].aggregate_id].amount_cents
        /\ \A w \in Workers : ~ReservedBelowAmount(w)

\* C36 witness: an account holds the reservations of two payments, and a
\* worker that claimed the event of one of them after its lease ran out is
\* about to finalize it
C36_Witness ==
    /\ HybridDeployment
    /\ \E a \in DOMAIN accounts : accounts[a].reserved_balance_cents = 800000
    /\ \E w \in Workers :
          /\ worker[w].pc = "run"
          /\ Current(w) \in DOMAIN outbox_events
          /\ payments[outbox_events[Current(w)].aggregate_id].status = RESERVED
          /\ now >= LeaseTtl


\* ------------------------------------------ workers that stall and restart
\* the worker process dies after its claim and is started again: the batch is
\* forgotten, the leases it stamped stay
Abandon(w) ==
    /\ worker[w].pc = "run"
    /\ worker' = [worker EXCEPT ![w].pc = "idle", ![w].event_ids = <<>>,
                                ![w].lease_expiration = NullTime]
    /\ UNCHANGED <<db, now, intake>>

StallTick == Advance(MaxStallTime)

StallNext ==
    \/ \E r \in RetryRequests : Submit(r)
    \/ \E r \in RetryRequests : IntakeBegin(r)
    \/ \E r \in RetryRequests : IntakeCommit(r)
    \/ \E w \in Workers : Acquire(w)
    \/ \E w \in Workers : Process(w)
    \/ \E w \in Workers : ProcessWorkerError(w)
    \/ \E w \in Workers : ProcessException(w)
    \/ \E w \in Workers : HandlePermanentFailure(w)
    \/ \E w \in Workers : HandleTransientFailure(w)
    \/ \E w \in Workers : Abandon(w)
    \/ StallTick

StallSpec == Init /\ [][StallNext]_vars

\* the failure handler of kind pc of some worker runs on event i in this step
HandlerRuns(pc, i) ==
    \E w \in Workers :
        /\ worker[w].pc = pc
        /\ Current(w) = i
        /\ worker'[w].pc # pc

C37_Step ==
    \A i \in DOMAIN outbox_events :
        /\ outbox_events'[i].attempts # outbox_events[i].attempts =>
              /\ HandlerRuns("transient", i)
              /\ outbox_events'[i].attempts = outbox_events[i].attempts + 1
        /\ (outbox_events'[i].status = DEAD /\ outbox_events[i].status # DEAD) =>
              \/ HandlerRuns("permanent", i)
              \/ HandlerRuns("transient", i)

\* an event in processing whose lease has run out can be claimed by any idle
\* worker
Reclaimable ==
    \A i \in DOMAIN outbox_events :
        (/\ outbox_events[i].status = PROCESSING
         /\ outbox_events[i].next_retry_at <= now)
        => /\ Eligible(outbox_events[i])
           /\ \A w \in Workers : worker[w].pc = "idle" => ENABLED Acquire(w)

\* C37: only the transient-failure handler counts attempts - batch
\* acquisition, re-claim of an expired lease, successful processing and the
\* permanent-failure handler leave attempts as they are, so an event whose
\* worker keeps crashing or stalling after the claim is claimable again at
\* every lease expiry and is never made dead by lease expiry
C37_AttemptsOnlyOnTransientFailure ==
    /\ [][C37_Step]_vars
    /\ []Reclaimable

\* C37 witness: an event is claimed for the third time, after two leases ran
\* out, with no attempt counted
C37_Witness ==
    \E i \in DOMAIN outbox_events :
        /\ outbox_events[i].status = PROCESSING
        /\ outbox_events[i].attempts = 0
        /\ outbox_events[i].next_retry_at = 3 * LeaseTtl
        /\ now = 2 * LeaseTtl


\* the event of a hybrid payment is dead and the payment is still reserved
DeadReserved(i) ==
    /\ outbox_events[i].event_type = PAYMENT_RESERVED
    /\ outbox_events[i].status = DEAD
    /\ outbox_events[i].aggregate_id \in DOMAIN payments
    /\ payments[outbox_events[i].aggregate_id].status = RESERVED

C38_Step ==
    \A i \in DOMAIN outbox_events :
        DeadReserved(i) =>
            LET payment == payments[outbox_events[i].aggregate_id] IN
            /\ payments'[payment.id].status = RESERVED
            /\ accounts'[payment.source_account_id].reserved_balance_cents
                  >= payment.amount_cents
            /\ accounts'[payment.source_account_id].available_balance_cents
                  <= accounts[payment.source_account_id].available_balance_cents

\* C38: dead-lettering does not release funds - once the outbox event of a
\* hybrid payment is dead, the payment stays in status reserved and its amount
\* stays in the source's reserved balance in every later state; nothing moves
\* the reserved funds back to available or rejects the payment
C38_DeadKeepsReservation == [][C38_Step]_vars


\* a worker in eventual mode delivers the payment.requested event of payment p
SettledByEventual(p) ==
    \E w \in Workers :
        /\ DeliversIn(w, EVENTUAL, PAYMENT_REQUESTED)
        /\ outbox_events[Current(w)].aggregate_id = p

C39_Step ==
    /\ \A p \in DOMAIN payments :
          /\ payments[p].status = RESERVED =>
                payments'[p].status \in {RESERVED, COMPLETED}
          /\ (payments'[p].status = REJECTED /\ payments[p].status # REJECTED) =>
                /\ payments[p].status = RECEIVED
                /\ SettledByEventual(p)
    /\ \A p \in DOMAIN payments' \ DOMAIN payments : payments'[p].status # REJECTED

\* the payments that hybrid intake made are reserved or completed
HybridNotRejected ==
    \A i \in DOMAIN outbox_events :
        outbox_events[i].event_type = PAYMENT_RESERVED =>
            payments[outbox_events[i].aggregate_id].status \in {RESERVED, COMPLETED}

\* C39: hybrid payments are never rejected - a payment created with status
\* reserved can only move to completed, and a payment becomes rejected only
\* when a worker in eventual mode settles it
C39_HybridNeverRejected ==
    /\ [][C39_Step]_vars
    /\ []HybridNotRejected

\* C39 witness: with hybrid workers, one payment has been completed by a
\* worker while a second one, made after it, is still reserved
C39_Witness ==
    /\ \A w \in Workers : worker[w].mode = HYBRID
    /\ Len(payments) = 2
    /\ Len(outbox_events) = 2
    /\ payments[1].status = COMPLETED
    /\ payments[2].status = RESERVED
    /\ \E i \in DOMAIN outbox_events : outbox_events[i].status = PROCESSED


\* every idempotency row belongs to the one payment made under its key, and
\* its stored response names that payment
Correspondence ==
    /\ {row.key : row \in idempotency_keys} =
          {payments[p].idempotency_key : p \in DOMAIN payments}
    /\ \A row \in idempotency_keys :
          /\ row.response_payload_json # <<>>
          /\ \E p \in DOMAIN payments :
                /\ payments[p].idempotency_key = row.key
                /\ payments[p].request_hash = row.request_hash
                /\ row.response_payload_json[1] = <<"payment_id", p>>
    /\ Cardinality(idempotency_keys) = Len(payments)

C40_Step ==
    LET rows == idempotency_keys' \ idempotency_keys
        made == DOMAIN payments' \ DOMAIN payments
    IN
    /\ idempotency_keys \subseteq idempotency_keys'
    /\ Cardinality(rows) <= 1
    /\ Cardinality(rows) = Cardinality(made)
    /\ \A row \in rows, p \in made :
          /\ row.key = payments'[p].idempotency_key
          /\ row.response_payload_json # <<>>
          /\ row.response_payload_json[1] = <<"payment_id", p>>
          /\ \E r \in DOMAIN intake :
                /\ intake[r].pc = "checked"
                /\ intake[r].request.idempotency_key = row.key
                /\ intake'[r].pc = "done"
                /\ intake'[r].created
                /\ intake'[r].response.payment_id = p
    /\ \A r \in DOMAIN intake :
          (intake[r].pc # "done" /\ intake'[r].pc = "done" /\ ~intake'[r].created) =>
              /\ idempotency_keys' = idempotency_keys
              /\ payments' = payments

\* C40: idempotency rows and payments are in one-to-one correspondence - a row
\* is written exactly in the intake transaction that commits a new payment,
\* with a non-empty stored response naming that payment's id; in every
\* committed state the keys of the rows are the idempotency_key values of the
\* payment rows; an intake transaction that fails or replays writes neither
C40_RowsMatchPayments ==
    /\ []Correspondence
    /\ [][C40_Step]_vars

\* C40 witness: two payments and their two rows, and a third call that lost
\* the race for one of the keys and wrote nothing
C40_Witness ==
    /\ Cardinality(idempotency_keys) = 2
    /\ Len(payments) = 2
    /\ \E r \in DOMAIN intake :
          /\ intake[r].pc = "done"
          /\ intake[r].integrity_error
          /\ ~intake[r].created

====
